---- MODULE Spec2Model ----
(***************************************************************************)
(* BodyBae.ai: the metric calculators, the in-memory stores, the goal      *)
(* progress tracker and the response engines of the repository's variants. *)
(*                                                                         *)
(* The repository holds several independent programs (bodybae_backend.py,  *)
(* enhanced_backend.py, bodybae-app.py with its services, ...).  A run of  *)
(* the model is a run of one of them: `app` is chosen in Init and never    *)
(* changes, and every action is an operation of the program it names.      *)
(*                                                                         *)
(* Numbers.  Python floats are modelled as exact rationals, carried as     *)
(* scaled integers: BMI values in tenths after round(x, 1), BMR in         *)
(* quarter calories before rounding (6.25 * height has a denominator of    *)
(* 4), activity multipliers in thousandths, weights of the tracker in      *)
(* hundredths of a pound.  Binary floating point error is not modelled.    *)
(***************************************************************************)
EXTENDS Integers, Sequences, FiniteSets, TLC

VARIABLES
    app,        \* the program that is running
    calc,       \* the last direct call of a calculator: [fn, arg, out]
    req,        \* the JSON body of the last request (bodybae-app: its user id)
    resp,       \* the response to the last request: [op, status, body]
    today,      \* bodybae-app: datetime.utcnow(), in days
    db_users,   \* bodybae-app: the users table, row id = index
    db_logs,    \* bodybae-app: the progress_logs table, in logged_at order
    db_goals,   \* bodybae-app: the goals table, row id = index
    users,      \* bodybae_backend: the users dict, key "user_<n>" = index n
    users_db,   \* bodybae_main, enhanced_backend: the users_db dict, in insertion
                \* order (the uuid keys are the indexes); main.py: user id ->
                \* onboarding record
    conversations_db,   \* enhanced_backend: user id -> list of messages
    memory,     \* RAGSystem, ChatbotService: the one ConversationBufferMemory
    calls,      \* what the last chat request asked of the encoder and the model
    configured, \* the generative model is configured (API key / pipeline loaded)
    chat_history_db,    \* the chat routes: user id -> list of messages
                        \* (conversations_db in enhanced_backend)
    clock,      \* the chat routes: datetime.now(), one tick per stored exchange
    searches,   \* EnhancedHealthRAG: the calls of search_relevant_docs so far
    vs_db,      \* VectorStore: self.db, the chunks of the index in memory
    faiss_index,    \* VectorStore: the directory rag_system/faiss_index
    threads,    \* the requests in flight of a server that handles them in threads
    goals_db,   \* main.py: user id -> the goal set in the chat
    progress_db \* main.py: user id -> the weights logged in the chat

vars ==
    <<app, calc, req, resp, today, db_users, db_logs, db_goals, users, users_db,
      conversations_db, memory, calls, configured, chat_history_db, clock,
      searches, vs_db, faiss_index, threads, goals_db, progress_db>>
trackerVars == <<today, db_users, db_logs, db_goals>>
backendVars == <<users>>
mainVars == <<users_db>>
chatVars == <<conversations_db, memory, calls, configured>>
storeVars == <<trackerVars, backendVars, mainVars, chatVars>>
historyVars == <<chat_history_db, clock>>
flowVars == <<goals_db, progress_db>>
toolVars == <<searches, vs_db, faiss_index, threads, flowVars>>
serviceVars == <<historyVars, toolVars>>

\* Python None and a present value, as sequences of length 0 and 1
None == <<>>
Some(x) == <<x>>

----------------------------------------------------------------------------
(* Python numerics *)

\* int(x) of the rational n/d, d > 0: truncation toward zero
TruncDiv(n, d) == IF n >= 0 THEN n \div d ELSE -((-n) \div d)

\* round(x) of the rational n/d, d > 0: nearest integer, ties to even
RoundHalfEven(n, d) ==
    LET q == n \div d
        r == n % d
    IN  IF 2 * r < d THEN q
        ELSE IF 2 * r > d THEN q + 1
        ELSE IF q % 2 = 0 THEN q ELSE q + 1

\* round(x, 1) of the rational n/d, in tenths
Round1(n, d) == RoundHalfEven(10 * n, d)

Max(a, b) == IF a >= b THEN a ELSE b

\* str.lower() on the sex / gender strings the requests carry
Lower(s) == IF s = "Male" THEN "male" ELSE IF s = "Female" THEN "female" ELSE s

----------------------------------------------------------------------------
(* Inputs of the calculators *)

MaxWeight == 120
Weights == 1..MaxWeight                              \* kg
MetricWeights == {10, 40, 57, 70, 92, MaxWeight}     \* kg
Heights == {50, 100, 175, 200}                       \* cm
Ages == {30, 60, 100}
Sexes == {"male", "Male", "female"}
Activities ==
    {"sedentary", "light", "moderate", "active", "very_active",
     "lightly_active", "moderately_active", "extremely_active"}
Tdees == {1000, 1200, 1699, 1700, 1701, 2000, 2594, 3000}
Goals ==
    {"Lose Weight", "Lose Fat", "Gain Weight", "Gain Muscle", "Bulking", "Toning",
     "Maintain Weight",
     "lose_weight", "gain_weight", "gain_muscle", "maintain_weight",
     "improve_endurance", "general_fitness"}

----------------------------------------------------------------------------
(* BMI: weight / (height / 100) ** 2 is the rational 10000 * weight / height^2 *)

\* bmi < t, t given in tenths
BmiLess(weight, height, t10) == 10 * 10000 * weight < t10 * height * height

BmiRounded(weight, height) == Round1(10000 * weight, height * height)

\* bodybae_backend.calculate_bmi
calculate_bmi(weight, height) ==
    LET lt185 == BmiLess(weight, height, 185)
        lt250 == BmiLess(weight, height, 250)
        lt300 == BmiLess(weight, height, 300)
        category ==
            IF lt185 THEN "Underweight"
            ELSE IF ~lt185 /\ lt250 THEN "Normal weight"
            ELSE IF ~lt250 /\ lt300 THEN "Overweight"
            ELSE "Obese"
        advice ==
            IF lt185 THEN "Focus on nutrient-dense foods and strength training"
            ELSE IF ~lt185 /\ lt250
                THEN "Maintain your healthy lifestyle with balanced nutrition"
            ELSE IF ~lt250 /\ lt300
                THEN "Consider portion control and increasing physical activity"
            ELSE "Consult a healthcare provider for personalized guidance"
    IN  [bmi |-> BmiRounded(weight, height), category |-> category, advice |-> advice]

\* calculate_bmi_detailed with the 25 boundary closed on the wrong side (bmi <= 25)
calculate_bmi_detailed_le25(weight, height) ==
    LET category ==
            IF BmiLess(weight, height, 185) THEN "Underweight"
            ELSE IF 10000 * weight <= 25 * height * height THEN "Normal Weight"
            ELSE IF BmiLess(weight, height, 300) THEN "Overweight"
            ELSE "Obese"
    IN  [bmi |-> BmiRounded(weight, height),
         category |-> category,
         health_risk |-> "Low",
         ideal_weight_range |-> [min |-> 0, max |-> 0]]

\* enhanced_backend.HealthCalculator.calculate_bmi_detailed
calculate_bmi_detailed(weight, height) ==
    LET category ==
            IF BmiLess(weight, height, 185) THEN "Underweight"
            ELSE IF BmiLess(weight, height, 250) THEN "Normal Weight"
            ELSE IF BmiLess(weight, height, 300) THEN "Overweight"
            ELSE "Obese"
        health_risk ==
            IF BmiLess(weight, height, 185) THEN "Low"
            ELSE IF BmiLess(weight, height, 250) THEN "Very Low"
            ELSE IF BmiLess(weight, height, 300) THEN "Moderate"
            ELSE "High"
    IN  [bmi |-> BmiRounded(weight, height),
         category |-> category,
         health_risk |-> health_risk,
         ideal_weight_range |->
            [min |-> RoundHalfEven(185 * height * height, 10000),
             max |-> RoundHalfEven(249 * height * height, 10000)]]

\* bodybae_main.AdvancedBodyBaeAI.get_bmi_category, on the unrounded bmi
\* weight / height ** 2 that calculate_advanced_metrics passes
get_bmi_category(weight, height) ==
    IF BmiLess(weight, height, 160) THEN "Severely Underweight"
    ELSE IF BmiLess(weight, height, 185) THEN "Underweight"
    ELSE IF BmiLess(weight, height, 250) THEN "Normal Weight"
    ELSE IF BmiLess(weight, height, 300) THEN "Overweight"
    ELSE IF BmiLess(weight, height, 350) THEN "Moderately Obese"
    ELSE IF BmiLess(weight, height, 400) THEN "Severely Obese"
    ELSE "Very Severely Obese"

----------------------------------------------------------------------------
(* BMR (Mifflin-St Jeor) and TDEE *)

\* onboard_bmr with the female offset mistyped as -160
onboard_bmr_offset160(weight, height, age, sex) ==
    IF sex = "male"
    THEN 40 * weight + 25 * height - 20 * age + 20
    ELSE 40 * weight + 25 * height - 20 * age - 640

\* bodybae_backend.onboard, the BMR branch: the unrounded bmr in quarter calories
onboard_bmr(weight, height, age, sex) ==
    IF sex = "male"
    THEN 40 * weight + 25 * height - 20 * age + 20
    ELSE 40 * weight + 25 * height - 20 * age - 644

\* onboard_multiplier with the 'active' entry mistyped as 1.275
onboard_multiplier_typo(activity) ==
    CASE activity = "sedentary" -> 1200
      [] activity = "light" -> 1375
      [] activity = "moderate" -> 1550
      [] activity = "active" -> 1275
      [] activity = "very_active" -> 1900
      [] OTHER -> 1550

\* bodybae_backend.onboard: activity_multipliers.get(activity, 1.55), in thousandths
onboard_multiplier(activity) ==
    CASE activity = "sedentary" -> 1200
      [] activity = "light" -> 1375
      [] activity = "moderate" -> 1550
      [] activity = "active" -> 1725
      [] activity = "very_active" -> 1900
      [] OTHER -> 1550

\* the tdee taken from the truncated bmr that is reported
onboard_tdee_of_reported(bmr4, activity) ==
    TruncDiv(TruncDiv(bmr4, 4) * onboard_multiplier(activity), 1000)

\* bodybae_backend.onboard: tdee = int(bmr * multiplier), bmr unrounded
onboard_tdee(bmr4, activity) == TruncDiv(bmr4 * onboard_multiplier(activity), 4000)

\* bodybae_backend.onboard, the computation on a validated request: the values the
\* handler stores and reports
onboard_metrics(weight, height, age, sex, activity) ==
    LET b == calculate_bmi(weight, height)
        bmr4 == onboard_bmr(weight, height, age, sex)
    IN  [bmi |-> b.bmi, bmi_category |-> b.category, bmi_advice |-> b.advice,
         bmr |-> TruncDiv(bmr4, 4),
         tdee |-> onboard_tdee(bmr4, activity)]

\* enhanced_backend.HealthCalculator.calculate_bmr: round(bmr)
calculate_bmr(weight, height, age, gender) ==
    IF Lower(gender) \in {"male", "man", "m"}
    THEN RoundHalfEven(40 * weight + 25 * height - 20 * age + 20, 4)
    ELSE RoundHalfEven(40 * weight + 25 * height - 20 * age - 644, 4)

\* the multipliers table shared by enhanced_backend and clean_main_app:
\* multipliers.get(activity_level, 1.2), in thousandths
multipliers(activity_level) ==
    CASE activity_level = "sedentary" -> 1200
      [] activity_level = "lightly_active" -> 1375
      [] activity_level = "moderately_active" -> 1550
      [] activity_level = "very_active" -> 1725
      [] activity_level = "extremely_active" -> 1900
      [] OTHER -> 1200

\* enhanced_backend.HealthCalculator.calculate_tdee: round(bmr * multiplier)
calculate_tdee(bmr, activity_level) ==
    RoundHalfEven(bmr * multipliers(activity_level), 1000)

\* clean_main_app.BodyBaeAI.calculate_bmr: unrounded, in quarter calories
BodyBaeAI_calculate_bmr(weight, height, age, sex) ==
    IF Lower(sex) \in {"male", "man", "m"}
    THEN 40 * weight + 25 * height - 20 * age + 20
    ELSE 40 * weight + 25 * height - 20 * age - 644

\* clean_main_app.BodyBaeAI.calculate_tdee: bmr * multiplier, unrounded; with bmr in
\* quarter calories the result is in 1/4000 calories
BodyBaeAI_calculate_tdee(bmr4, activity_level) == bmr4 * multipliers(activity_level)

----------------------------------------------------------------------------
(* Goal-adjusted calorie targets *)

\* calculate_goal_calories with the 'Gain Muscle' surplus of the 'Gain Weight' branch
calculate_goal_calories_muscle300(tdee, goal) ==
    IF goal \in {"Lose Weight", "Lose Fat"} THEN tdee - 500
    ELSE IF goal \in {"Gain Weight", "Gain Muscle"} THEN tdee + 300
    ELSE IF goal = "Bulking" THEN tdee + 500
    ELSE IF goal = "Toning" THEN tdee - 250
    ELSE tdee

\* bodybae_backend.calculate_goal_calories: the target_calories of the returned pair
\* (the advice string repeats the same number)
calculate_goal_calories(tdee, goal) ==
    IF goal \in {"Lose Weight", "Lose Fat"} THEN tdee - 500
    ELSE IF goal = "Gain Weight" THEN tdee + 300
    ELSE IF goal = "Gain Muscle" THEN tdee + 250
    ELSE IF goal = "Bulking" THEN tdee + 500
    ELSE IF goal = "Toning" THEN tdee - 250
    ELSE tdee

\* enhanced_backend.HealthCalculator.get_calorie_targets: the "calories" and the
\* reported "deficit" / "surplus" of the selected entry
get_calorie_targets(tdee, goal) ==
    CASE goal = "lose_weight" ->
            [calories |-> Max(1200, tdee - 500), deficit |-> 500, surplus |-> 0]
      [] goal = "gain_muscle" ->
            [calories |-> tdee + 300, deficit |-> 0, surplus |-> 300]
      [] goal = "maintain_weight" ->
            [calories |-> tdee, deficit |-> 0, surplus |-> 0]
      [] goal = "improve_endurance" ->
            [calories |-> tdee + 100, deficit |-> 0, surplus |-> 100]
      [] OTHER ->
            [calories |-> tdee, deficit |-> 0, surplus |-> 0]

----------------------------------------------------------------------------
(* Direct calls of the calculators.  The arguments are drawn in Init; a    *)
(* call applies one function to them and records what it returned.         *)

\* at 171 cm some whole weights give a bmi just under a boundary
BmiHeights == Heights \cup {171}
BmiArgs == [kind : {"bmi"}, weight : Weights, height : BmiHeights]
MetricArgs ==
    [kind : {"metrics"}, weight : MetricWeights, height : Heights, age : Ages,
     sex : Sexes, activity : Activities]
GoalArgs == [kind : {"goal"}, tdee : Tdees, goal : Goals]
CalcArgs == BmiArgs \cup MetricArgs \cup GoalArgs

Called(fn, out) == [calc EXCEPT !.fn = fn, !.out = out]

CalculateBmi ==
    /\ app = "calculators" /\ calc.arg.kind = "bmi"
    /\ calc' = Called("calculate_bmi",
                      calculate_bmi(calc.arg.weight, calc.arg.height))
    /\ UNCHANGED <<app, serviceVars, req, resp, storeVars>>

CalculateBmiDetailed ==
    /\ app = "calculators" /\ calc.arg.kind = "bmi"
    /\ calc' = Called("calculate_bmi_detailed",
                      calculate_bmi_detailed(calc.arg.weight, calc.arg.height))
    /\ UNCHANGED <<app, serviceVars, req, resp, storeVars>>

GetBmiCategory ==
    /\ app = "calculators" /\ calc.arg.kind = "bmi"
    /\ calc' = Called("get_bmi_category",
                      [category |-> get_bmi_category(calc.arg.weight, calc.arg.height)])
    /\ UNCHANGED <<app, serviceVars, req, resp, storeVars>>

OnboardMetrics ==
    /\ app = "calculators" /\ calc.arg.kind = "metrics"
    /\ calc' = Called("onboard",
                      onboard_metrics(calc.arg.weight, calc.arg.height, calc.arg.age,
                                      calc.arg.sex, calc.arg.activity))
    /\ UNCHANGED <<app, serviceVars, req, resp, storeVars>>

\* calculate_bmr then calculate_tdee on its result, as enhanced_backend.save_profile
\* chains them
CalculateBmrTdee ==
    /\ app = "calculators" /\ calc.arg.kind = "metrics"
    /\ calc' = Called("calculate_tdee",
            LET bmr == calculate_bmr(calc.arg.weight, calc.arg.height, calc.arg.age,
                                     calc.arg.sex)
            IN  [bmr |-> bmr, tdee |-> calculate_tdee(bmr, calc.arg.activity)])
    /\ UNCHANGED <<app, serviceVars, req, resp, storeVars>>

\* BodyBaeAI.calculate_bmr then BodyBaeAI.calculate_tdee on its result
BodyBaeAICalculateTdee ==
    /\ app = "calculators" /\ calc.arg.kind = "metrics"
    /\ calc' = Called("BodyBaeAI.calculate_tdee",
            LET bmr4 == BodyBaeAI_calculate_bmr(calc.arg.weight, calc.arg.height,
                                                calc.arg.age, calc.arg.sex)
            IN  [bmr4 |-> bmr4,
                 tdee4000 |-> BodyBaeAI_calculate_tdee(bmr4, calc.arg.activity)])
    /\ UNCHANGED <<app, serviceVars, req, resp, storeVars>>

CalculateGoalCalories ==
    /\ app = "calculators" /\ calc.arg.kind = "goal"
    /\ calc' = Called("calculate_goal_calories",
            [target_calories |-> calculate_goal_calories(calc.arg.tdee, calc.arg.goal)])
    /\ UNCHANGED <<app, serviceVars, req, resp, storeVars>>

GetCalorieTargets ==
    /\ app = "calculators" /\ calc.arg.kind = "goal"
    /\ calc' = Called("get_calorie_targets",
                      get_calorie_targets(calc.arg.tdee, calc.arg.goal))
    /\ UNCHANGED <<app, serviceVars, req, resp, storeVars>>

----------------------------------------------------------------------------
(* bodybae-app.py with services/progress_tracker.py: users, goals and       *)
(* progress logs in a SQL database.  Weights are in hundredths of a pound.   *)

MaxRows == 4            \* rows in the three tables together
MaxDay == 84
TrackWeights == {10000, 10001, 20000, 25000}
GoalTypes == {"lose_weight", "gain_weight", "toning"}

\* the truth value of an optional number: None and 0 are falsy
Truthy(opt) == opt # None /\ opt[1] # 0

\* ProgressLog.query.filter_by(user_id=...).order_by(logged_at)
LogsOf(logs, user_id) == SelectSeq(logs, LAMBDA l : l.user_id = user_id)

\* first_log.weight if first_log and first_log.weight else user.weight
starting_weight(user_rows, logs, user_id) ==
    LET mine == LogsOf(logs, user_id)
    IN  IF Len(mine) > 0 /\ Truthy(mine[1].weight)
        THEN mine[1].weight[1]
        ELSE user_rows[user_id].weight

\* ProgressTracker.calculate_weight_loss_progress; percentage in tenths
calculate_weight_loss_progress(user_rows, logs, goal) ==
    LET start == starting_weight(user_rows, logs, goal.user_id)
        current == user_rows[goal.user_id].weight
        total_to_lose == start - goal.target_value
        lost_so_far == start - current
    IN  [goal_type |-> "Weight Loss",
         current |-> current,
         target |-> goal.target_value,
         percentage |-> IF total_to_lose > 0
                        THEN Round1(lost_so_far * 100, total_to_lose)
                        ELSE 0]

\* ProgressTracker.calculate_weight_gain_progress; percentage in tenths
calculate_weight_gain_progress(user_rows, logs, goal) ==
    LET start == starting_weight(user_rows, logs, goal.user_id)
        current == user_rows[goal.user_id].weight
        total_to_gain == goal.target_value - start
        gained_so_far == current - start
    IN  [goal_type |-> "Weight Gain",
         current |-> current,
         target |-> goal.target_value,
         percentage |-> IF total_to_gain > 0
                        THEN Round1(gained_so_far * 100, total_to_gain)
                        ELSE 0]

\* ProgressTracker.calculate_general_progress; percentage in tenths
calculate_general_progress(now, goal) ==
    LET days_elapsed == now - goal.start_date
        total_days == goal.target_date - goal.start_date
    IN  [goal_type |-> goal.goal_type,
         current |-> days_elapsed,
         target |-> total_days,
         percentage |-> IF total_days > 0
                        THEN Round1(days_elapsed * 100, total_days)
                        ELSE 0]

\* the progress check_goal_progress computes for one goal
progress_of(now, user_rows, logs, goal) ==
    IF goal.goal_type = "lose_weight"
        THEN calculate_weight_loss_progress(user_rows, logs, goal)
    ELSE IF goal.goal_type = "gain_weight"
        THEN calculate_weight_gain_progress(user_rows, logs, goal)
    ELSE calculate_general_progress(now, goal)

\* the filter without completed=False
IsActiveGoal_completed_too(goal, user_id) ==
    goal.user_id = user_id /\ goal.is_active

\* Goal.query.filter_by(user_id=user.id, is_active=True, completed=False)
IsActiveGoal(goal, user_id) ==
    goal.user_id = user_id /\ goal.is_active /\ ~goal.completed

\* ProgressTracker.check_goal_progress: the goals table after the loop (each goal is
\* evaluated on its own, and a flip is committed at once)
check_goal_progress(now, user_rows, logs, goals, user_id) ==
    [g \in 1..Len(goals) |->
        IF /\ IsActiveGoal(goals[g], user_id)
           /\ progress_of(now, user_rows, logs, goals[g]).percentage >= 1000
        THEN [goals[g] EXCEPT !.completed = TRUE]
        ELSE goals[g]]

\* ProgressTracker.check_goal_progress: the progress_updates it returns
RECURSIVE progress_updates(_, _, _, _, _, _)
progress_updates(now, user_rows, logs, goals, user_id, g) ==
    IF g > Len(goals) THEN <<>>
    ELSE (IF IsActiveGoal(goals[g], user_id)
          THEN <<progress_of(now, user_rows, logs, goals[g])>>
          ELSE <<>>)
         \o progress_updates(now, user_rows, logs, goals, user_id, g + 1)

\* bodybae-app.calculate_realistic_timeline: int(weeks_needed)
weeks_needed(current_weight, goal_type, target_value) ==
    IF goal_type = "lose_weight" THEN TruncDiv(current_weight - target_value, 150)
    ELSE IF goal_type = "gain_weight" THEN TruncDiv(target_value - current_weight, 100)
    ELSE IF goal_type = "gain_muscle" THEN TruncDiv(2 * target_value, 100)
    ELSE IF goal_type = "lose_fat" THEN TruncDiv(target_value, 100)
    ELSE 12

DbRows == Len(db_users) + Len(db_logs) + Len(db_goals)

\* the user ids a request may carry: every known id and one unknown id
UserIds == 1..(Len(db_users) + 1)

\* POST /api/user/profile
CreateUserProfile ==
    /\ app = "bodybae-app"
    /\ DbRows < MaxRows
    /\ \E weight \in {20000} :
        /\ req' = [user_id |-> None]
        /\ db_users' = Append(db_users, [weight |-> weight])
        /\ resp' = [op |-> "create_user_profile", status |-> 200,
                    body |-> [status |-> "success", user_id |-> Len(db_users) + 1]]
    /\ UNCHANGED <<app, serviceVars, calc, today, db_logs, db_goals, backendVars, mainVars, chatVars>>

\* POST /api/user/goals.  The Goal row gets start_date = utcnow() an instant after
\* the target date was computed from utcnow(), so (target_date - start_date).days
\* is one less than 7 * weeks.  target_date is handed to the DateTime column as an
\* ISO string, which the database driver either parses or rejects on commit.
SetUserGoals ==
    /\ app = "bodybae-app"
    /\ \E user_id \in UserIds, goal_type \in GoalTypes,
          target_value \in {10000, 25000}, driver_parses \in BOOLEAN :
        /\ req' = [user_id |-> Some(user_id)]
        /\ IF user_id > Len(db_users)
           THEN /\ resp' = [op |-> "set_user_goals", status |-> 404,
                            body |-> [error |-> "User not found"]]
                /\ UNCHANGED db_goals
           ELSE IF ~driver_parses
           THEN /\ resp' = [op |-> "set_user_goals", status |-> 500,
                            body |-> [error |-> "StatementError"]]
                /\ UNCHANGED db_goals
           ELSE /\ DbRows < MaxRows
                /\ LET weeks == weeks_needed(db_users[user_id].weight, goal_type,
                                             target_value)
                   IN  /\ db_goals' = Append(db_goals,
                               [user_id |-> user_id, goal_type |-> goal_type,
                                target_value |-> target_value,
                                target_date |-> today + 7 * weeks - 1,
                                start_date |-> today,
                                is_active |-> TRUE, completed |-> FALSE])
                       /\ resp' = [op |-> "set_user_goals", status |-> 200,
                                   body |-> [status |-> "success",
                                             goal_id |-> Len(db_goals) + 1,
                                             weeks_needed |-> weeks]]
    /\ UNCHANGED <<app, serviceVars, calc, today, db_users, db_logs, backendVars, mainVars, chatVars>>

\* POST /api/progress/log -> ProgressTracker.log_progress
LogProgress ==
    /\ app = "bodybae-app"
    /\ \E user_id \in UserIds,
          weight \in {None} \cup {Some(w) : w \in TrackWeights} :
        /\ req' = [user_id |-> Some(user_id)]
        /\ IF user_id > Len(db_users)
           THEN /\ resp' = [op |-> "log_progress", status |-> 200,
                            body |-> [error |-> "User not found"]]
                /\ UNCHANGED <<db_users, db_logs, db_goals>>
           ELSE /\ DbRows < MaxRows
                /\ LET users1 == IF Truthy(weight)
                                 THEN [db_users EXCEPT ![user_id].weight = weight[1]]
                                 ELSE db_users
                       logs1 == Append(db_logs, [user_id |-> user_id, weight |-> weight])
                   IN  /\ db_users' = users1
                       /\ db_logs' = logs1
                       /\ db_goals' = check_goal_progress(today, users1, logs1, db_goals,
                                                          user_id)
                       /\ resp' = [op |-> "log_progress", status |-> 200,
                                   body |-> [status |-> "success",
                                             progress_update |->
                                               progress_updates(today, users1, logs1,
                                                                db_goals, user_id, 1)]]
    /\ UNCHANGED <<app, serviceVars, calc, today, backendVars, mainVars, chatVars>>

\* log_progress when the database fails in check_goal_progress (the Goal query of
\* line 47 raises): the log row and the weight are committed by then, rollback()
\* finds nothing to undo and the except branch returns the error
LogProgressInterrupted ==
    /\ app = "bodybae-app"
    /\ \E user_id \in 1..Len(db_users),
          weight \in {None} \cup {Some(w) : w \in TrackWeights} :
        /\ DbRows < MaxRows
        /\ req' = [user_id |-> Some(user_id)]
        /\ db_users' = IF Truthy(weight)
                       THEN [db_users EXCEPT ![user_id].weight = weight[1]]
                       ELSE db_users
        /\ db_logs' = Append(db_logs, [user_id |-> user_id, weight |-> weight])
        /\ resp' = [op |-> "log_progress", status |-> 200,
                    body |-> [error |-> "OperationalError"]]
    /\ UNCHANGED <<app, serviceVars, calc, today, db_goals, backendVars, mainVars,
                   chatVars>>

\* time passes, twelve weeks at a time
Tick ==
    /\ app = "bodybae-app"
    /\ today + 84 <= MaxDay
    /\ today' = today + 84
    /\ UNCHANGED <<app, serviceVars, calc, req, resp, db_users, db_logs, db_goals, backendVars,
                   mainVars, chatVars>>

----------------------------------------------------------------------------
(* bodybae_backend: the JSON routes over the in-memory users dict *)

MaxUsers == 2

\* a value of a JSON request field: absent, a string, or a number
Missing == [kind |-> "missing", num |-> 0, text |-> ""]
Text(s) == [kind |-> "text", num |-> 0, text |-> s]
Number(n) == [kind |-> "number", num |-> n, text |-> ""]

\* the strings float() and int() accept, and their values
NumericText == {"70"}
ParseNumber(s) == IF s = "70" THEN 70 ELSE 0

\* float(v) / int(v) raise ValueError on a string that is not a number
Converts(v) == v.kind = "number" \/ (v.kind = "text" /\ v.text \in NumericText)
Converted(v) == IF v.kind = "number" THEN v.num ELSE ParseNumber(v.text)

\* the text of a field that is compared with strings (sex, activity_level, goal)
TextOf(v) == IF v.kind = "text" THEN v.text ELSE ""

required_fields == <<"name", "age", "sex", "height", "weight", "activity_level">>

\* requests that pass every check of onboard
ValidRequests ==
    [name : {Text("Sam")},
     age : {Number(30)},
     sex : {Text("male"), Text("female")},
     height : {Number(175)},
     weight : {Number(70), Text("70")},
     activity_level : {Text("moderate")}]

BaseRequest ==
    [name |-> Text("Sam"), age |-> Number(30), sex |-> Text("male"),
     height |-> Number(175), weight |-> Number(70),
     activity_level |-> Text("moderate")]

\* the base request with one field left out, with two fields left out, and with
\* one numeric field that is not a number or is zero
FaultyRequests ==
    {[BaseRequest EXCEPT ![required_fields[i]] = Missing] :
        i \in 1..Len(required_fields)}
    \cup {[BaseRequest EXCEPT !.age = Missing, !.weight = Missing]}
    \cup {[BaseRequest EXCEPT !.age = Text("abc")],
          [BaseRequest EXCEPT !.height = Text("abc")],
          [BaseRequest EXCEPT !.weight = Text("abc")],
          [BaseRequest EXCEPT !.height = Number(0)]}

OnboardRequests == ValidRequests \cup FaultyRequests

MissingFields(data) ==
    {i \in 1..Len(required_fields) : data[required_fields[i]].kind = "missing"}

\* the first required field that is not in the request
FirstMissing(data) ==
    required_fields[CHOOSE i \in MissingFields(data) :
                        \A j \in MissingFields(data) : i <= j]

\* the conversions and the division of onboard that raise inside its try block
OnboardRaises(data) ==
    \/ ~Converts(data.weight)
    \/ ~Converts(data.height)
    \/ Converted(data.height) = 0
    \/ ~Converts(data.age)

\* the store written users.setdefault(user_id, {...}): a key that is taken
\* keeps its value
store_user_setdefault(dict, user_id, profile) ==
    IF user_id = Len(dict) + 1 THEN Append(dict, profile) ELSE dict

\* users[user_id] = {...}: a new key, or a new value for a key that is there
store_user(dict, user_id, profile) ==
    IF user_id = Len(dict) + 1
    THEN Append(dict, profile)
    ELSE [dict EXCEPT ![user_id] = profile]

\* the key taken from the number of users without the + 1
next_user_id_taken(dict) == Len(dict)

\* user_id = f"user_{len(users) + 1}"
next_user_id(dict) == Len(dict) + 1

\* POST /api/onboard
Onboard ==
    /\ app = "bodybae_backend"
    /\ \E data \in OnboardRequests :
        /\ req' = data
        /\ IF MissingFields(data) # {}
          THEN /\ resp' = [op |-> "onboard", status |-> 400,
                           body |-> [error |-> "Missing required field",
                                     field |-> FirstMissing(data)]]
               /\ UNCHANGED users
          ELSE IF OnboardRaises(data)
          THEN /\ resp' = [op |-> "onboard", status |-> 500,
                           body |-> [error |-> "Internal server error"]]
               /\ UNCHANGED users
          ELSE LET m == onboard_metrics(Converted(data.weight), Converted(data.height),
                                        Converted(data.age), TextOf(data.sex),
                                        TextOf(data.activity_level))
                   user_id == next_user_id(users)
               IN  /\ Len(users) < MaxUsers
                   /\ users' = store_user(users, user_id,
                                      [name |-> data.name, weight |-> data.weight,
                                       bmi |-> m.bmi, bmi_category |-> m.bmi_category,
                                       bmr |-> m.bmr, tdee |-> m.tdee,
                                       goal |-> Missing, target_calories |-> None])
                   /\ resp' = [op |-> "onboard", status |-> 200,
                               body |-> [user_id |-> user_id, bmi |-> m.bmi,
                                         bmi_category |-> m.bmi_category,
                                         bmi_advice |-> m.bmi_advice,
                                         bmr |-> m.bmr, tdee |-> m.tdee,
                                         name |-> TextOf(data.name)]]
    /\ UNCHANGED <<app, serviceVars, calc, trackerVars, mainVars, chatVars>>

\* data.get('user_id'): absent, or "user_<n>"
UserIdInputs == {None} \cup {Some(n) : n \in 1..(MaxUsers + 1)}

\* user_id and user_id in users
KnownUser(user_id) == user_id # None /\ user_id[1] \in 1..Len(users)

SetGoalRequests ==
    [goal : {Missing, Text("Lose Weight"), Text("Dance")},
     target_weeks : {Missing, Text("abc"), Number(8)},
     user_id : UserIdInputs]

\* the assignments that leave target_calories as onboarding stored it
store_goal_only(dict, user_id, goal, target_calories) ==
    [dict EXCEPT ![user_id].goal = goal]

\* users[user_id]['goal'] = goal; users[user_id]['target_calories'] = target_calories
store_goal(dict, user_id, goal, target_calories) ==
    [dict EXCEPT ![user_id].goal = goal, ![user_id].target_calories = target_calories]

\* POST /api/set_goal
SetGoal ==
    /\ app = "bodybae_backend"
    /\ \E data \in SetGoalRequests :
        /\ req' = data
        /\ IF data.target_weeks.kind # "missing" /\ ~Converts(data.target_weeks)
          THEN /\ resp' = [op |-> "set_goal", status |-> 500,
                           body |-> [error |-> "Internal server error"]]
               /\ UNCHANGED users
          ELSE LET target_weeks == IF data.target_weeks.kind = "missing" THEN 12
                                   ELSE Converted(data.target_weeks)
                   user_tdee == IF KnownUser(data.user_id)
                                THEN Some(users[data.user_id[1]].tdee)
                                ELSE None
                   available == user_tdee # None /\ user_tdee[1] # 0
                   target_calories ==
                       IF available
                       THEN Some(calculate_goal_calories(user_tdee[1],
                                                         TextOf(data.goal)))
                       ELSE None
               IN  /\ users' = IF available
                               THEN store_goal(users, data.user_id[1], data.goal,
                                               target_calories)
                               ELSE users
                   /\ resp' = [op |-> "set_goal", status |-> 200,
                               body |-> [goal |-> data.goal,
                                         target_weeks |-> target_weeks,
                                         target_calories |-> target_calories]]
    /\ UNCHANGED <<app, serviceVars, calc, trackerVars, mainVars, chatVars>>

\* protein_per_kg of nutrition_plan, in tenths
protein_per_kg(goal) ==
    IF goal \in {"Gain Muscle", "Bulking"} THEN 20
    ELSE IF goal \in {"Lose Weight", "Lose Fat", "Toning"} THEN 18
    ELSE 16

\* POST /api/nutrition_plan
NutritionPlan ==
    /\ app = "bodybae_backend"
    /\ \E user_id \in UserIdInputs :
        /\ req' = [user_id |-> user_id]
        /\ IF ~KnownUser(user_id)
          THEN resp' = [op |-> "nutrition_plan", status |-> 404,
                        body |-> [error |-> "User not found"]]
          ELSE LET user == users[user_id[1]]
                   goal == TextOf(user.goal)
                   target_calories == calculate_goal_calories(user.tdee, goal)
               IN  IF user.weight.kind # "number" \/ target_calories = 0
                   THEN resp' = [op |-> "nutrition_plan", status |-> 500,
                                 body |-> [error |-> "Internal server error"]]
                   ELSE resp' = [op |-> "nutrition_plan", status |-> 200,
                                 body |-> [tdee |-> user.tdee,
                                           target_calories |-> target_calories,
                                           protein_grams |->
                                               TruncDiv(user.weight.num
                                                        * protein_per_kg(goal), 10)]]
    /\ UNCHANGED <<app, serviceVars, calc, users, trackerVars, mainVars, chatVars>>

----------------------------------------------------------------------------
(* bodybae_main: POST /analyze_health over the users_db dict *)

MaxProfiles == 2

analyze_fields == <<"name", "age", "height", "weight", "gender", "activity", "goals">>

BaseProfile ==
    [name |-> Text("Sam"), age |-> Number(30), height |-> Number(175),
     weight |-> Number(70), gender |-> Text("male"),
     activity |-> Text("moderately_active"), goals |-> Text("Weight Loss")]

\* the base request, the base request for a woman, with one key left out, with a
\* numeric field that is not a number, and with height 0
AnalyzeRequests ==
    {BaseProfile, [BaseProfile EXCEPT !.gender = Text("Female")]}
    \cup {[BaseProfile EXCEPT ![analyze_fields[i]] = Missing] :
            i \in 1..Len(analyze_fields)}
    \cup {[BaseProfile EXCEPT !.age = Text("abc")],
          [BaseProfile EXCEPT !.height = Text("abc")],
          [BaseProfile EXCEPT !.weight = Text("abc")],
          [BaseProfile EXCEPT !.height = Number(0)]}

\* building user_data raises: KeyError on an absent key, ValueError on a
\* conversion
UserDataRaises(data) ==
    \/ \E i \in 1..Len(analyze_fields) : data[analyze_fields[i]].kind = "missing"
    \/ ~Converts(data.age)
    \/ ~Converts(data.height)
    \/ ~Converts(data.weight)

\* AdvancedBodyBaeAI.calculate_advanced_metrics: bmi in tenths, bmr, tdee
calculate_advanced_metrics(weight, height, age, gender, activity) ==
    LET bmr4 == IF Lower(gender) = "male"
                THEN 40 * weight + 25 * height - 20 * age + 20
                ELSE 40 * weight + 25 * height - 20 * age - 644
    IN  [bmi |-> BmiRounded(weight, height),
         bmi_category |-> get_bmi_category(weight, height),
         bmr |-> RoundHalfEven(bmr4, 4),
         tdee |-> RoundHalfEven(bmr4 * multipliers(activity), 4000)]

\* POST /analyze_health: every exception is answered with jsonify({'success':
\* False, 'error': ...}), status 200; user_data is stored before the metrics are
\* computed
AnalyzeHealth ==
    /\ app = "bodybae_main"
    /\ \E data \in AnalyzeRequests :
        /\ req' = data
        /\ IF UserDataRaises(data)
          THEN /\ resp' = [op |-> "analyze_health", status |-> 200,
                           body |-> [success |-> FALSE, error |-> "exception"]]
               /\ UNCHANGED users_db
          ELSE LET user_data == [name |-> TextOf(data.name),
                                 age |-> Converted(data.age),
                                 height |-> Converted(data.height),
                                 weight |-> Converted(data.weight),
                                 gender |-> TextOf(data.gender),
                                 activity |-> TextOf(data.activity),
                                 metrics |-> None]
               IN  /\ Len(users_db) < MaxProfiles
                   /\ IF user_data.height = 0
                      THEN /\ users_db' = Append(users_db, user_data)
                           /\ resp' = [op |-> "analyze_health", status |-> 200,
                                       body |-> [success |-> FALSE,
                                                 error |-> "division by zero"]]
                      ELSE LET metrics == calculate_advanced_metrics(
                                              user_data.weight, user_data.height,
                                              user_data.age, user_data.gender,
                                              user_data.activity)
                           IN  /\ users_db' = Append(users_db,
                                      [user_data EXCEPT !.metrics = Some(metrics)])
                               /\ resp' = [op |-> "analyze_health", status |-> 200,
                                           body |-> [success |-> TRUE,
                                                     profile |-> user_data,
                                                     metrics |-> metrics]]
    /\ UNCHANGED <<app, serviceVars, calc, trackerVars, backendVars, chatVars>>

----------------------------------------------------------------------------
(* enhanced_backend: EnhancedHealthRAG and the routes /api/chat, /api/profile *)

MaxExchanges == 1       \* stored exchanges of all conversations together

\* the topics of the health_knowledge documents, in list order
Topics ==
    <<"Weight Loss Science", "Muscle Building Optimization",
      "Cardiovascular Health and Endurance", "Nutrition Fundamentals",
      "Sleep and Recovery Optimization", "Age-Specific Fitness Guidelines",
      "Women's Health and Fitness", "Men's Health and Fitness">>
Docs == 1..Len(Topics)

Queries == {"how do i lose weight", "build muscle", "hey"}

\* the inner products index.search computes for a query against the normalised
\* document embeddings, in hundredths
similarity(query) ==
    CASE query = "how do i lose weight" ->
            <<62, 18, 30, 31, 12, 9, 22, 21>>
      [] query = "build muscle" ->
            <<14, 30, 11, 12, 8, 10, 19, 28>>
      [] OTHER ->
            <<20, 7, 6, 5, 4, 3, 2, 1>>

\* index.search(query_embedding, k): the k best documents, best first
index_search(query, k) ==
    LET scores == similarity(query)
        rank(d) == 1 + Cardinality({e \in Docs :
                                       \/ scores[e] > scores[d]
                                       \/ scores[e] = scores[d] /\ e < d})
    IN  [i \in 1..k |-> CHOOSE d \in Docs : rank(d) = i]

\* search_relevant_docs with the threshold test written score >= 0.3
search_relevant_docs_ge(query) ==
    SelectSeq(index_search(query, 3), LAMBDA d : similarity(query)[d] >= 30)

\* EnhancedHealthRAG.search_relevant_docs(query, k=3)
search_relevant_docs(query) ==
    SelectSeq(index_search(query, 3), LAMBDA d : similarity(query)[d] > 30)

\* any(word in query_lower for word in words), over the queries above
AnyWordIn(query, words) ==
    LET phrases == CASE query = "how do i lose weight" -> {"lose weight", "weight", "lose"}
                     [] query = "build muscle" -> {"muscle", "build"}
                     [] OTHER -> {}
    IN  phrases \cap words # {}

\* EnhancedHealthRAG._generate_fallback_response; user_profile is None for an
\* empty profile, the text is the sequence of its parts
_generate_fallback_response(query, user_profile, relevant_docs) ==
    LET name == IF user_profile # None THEN user_profile[1].name ELSE "there"
        base_response ==
            IF relevant_docs # <<>>
            THEN <<"Hi", name, "Based on current health science:",
                   Topics[relevant_docs[1]]>>
            ELSE <<"Hi", name, "I'm here to help with your health and fitness journey.">>
    IN  IF AnyWordIn(query, {"weight loss", "lose weight"})
        THEN base_response \o <<"For weight loss">>
        ELSE IF AnyWordIn(query, {"muscle", "strength", "build"})
        THEN base_response \o <<"For muscle building">>
        ELSE IF AnyWordIn(query, {"cardio", "endurance", "running"})
        THEN base_response \o <<"For cardiovascular health">>
        ELSE base_response \o <<"I can help with workout plans">>

NoCalls == [encode |-> "none", generation |-> "none", context |-> <<>>,
            fallback |-> FALSE, history |-> <<>>]

\* what openai.ChatCompletion.create does: raise, or return a message
Completions == {"raise", "generated answer"}

\* what the encoder and the model do during one request: the encoder raises, or
\* it returns and the model, if called, does one of Completions
Externals ==
    {[encoder_ok |-> FALSE, completion |-> "raise"]}
    \cup [encoder_ok : {TRUE}, completion : Completions]

\* EnhancedHealthRAG.generate_response.  encoder_ok: encoder.encode and
\* index.search return; api_key: openai.api_key is set; completion: what the
\* model does when it is called.  The retrieval runs before the try block.
generate_response(query, user_profile, api_key, encoder_ok, completion) ==
    IF ~encoder_ok
    THEN [raised |-> TRUE, text |-> <<>>,
          calls |-> [NoCalls EXCEPT !.encode = "raised"]]
    ELSE LET relevant_docs == search_relevant_docs(query)
             made == [NoCalls EXCEPT !.encode = "returned",
                                     !.context = relevant_docs]
         IN  IF api_key /\ completion # "raise"
             THEN [raised |-> FALSE, text |-> <<completion>>,
                   calls |-> [made EXCEPT !.generation = "returned"]]
             ELSE [raised |-> FALSE,
                   text |-> _generate_fallback_response(query, user_profile,
                                                        relevant_docs),
                   calls |-> [made EXCEPT
                                !.generation = IF api_key THEN "raised" ELSE "none",
                                !.fallback = TRUE]]

\* the user ids a chat request may carry: none, every profile id, one other id
ChatUserIds == 1..(MaxProfiles + 1)
ChatUserIdInputs == {None} \cup {Some(n) : n \in 1..(Len(users_db) + 1)}

StoredMessages ==
    LET RECURSIVE total(_)
        total(n) == IF n = 0 THEN 0 ELSE Len(conversations_db[n]) + total(n - 1)
    IN  total(MaxProfiles + 1)

\* the slice written [-19:]
Last19(messages) ==
    IF Len(messages) > 20
    THEN SubSeq(messages, Len(messages) - 18, Len(messages))
    ELSE messages

\* conversations_db[user_id][-20:]
Last20(messages) ==
    IF Len(messages) > 20
    THEN SubSeq(messages, Len(messages) - 19, Len(messages))
    ELSE messages

\* POST /api/chat
EnhancedChat ==
    /\ app = "enhanced_backend"
    /\ \E message \in Queries \cup {""}, user_id \in ChatUserIdInputs,
          ext \in Externals :
        /\ req' = [message |-> message, user_id |-> user_id]
        /\ IF message = ""
           THEN /\ resp' = [op |-> "chat", status |-> 400,
                            body |-> [error |-> "Message is required"]]
                /\ calls' = NoCalls
                /\ UNCHANGED conversations_db
           ELSE LET user_profile ==
                        IF user_id # None /\ user_id[1] <= Len(users_db)
                        THEN Some(users_db[user_id[1]])
                        ELSE None
                IN  \E out \in {generate_response(message, user_profile, configured,
                                                   ext.encoder_ok,
                                                   ext.completion)} :
                    /\ calls' = out.calls
                    /\ IF out.raised
                       THEN /\ resp' = [op |-> "chat", status |-> 500,
                                        body |-> [error |->
                                                    "Error processing your message"]]
                            /\ UNCHANGED conversations_db
                       ELSE /\ user_id # None => StoredMessages < 2 * MaxExchanges
                            /\ conversations_db' =
                                 IF user_id # None
                                 THEN [conversations_db EXCEPT ![user_id[1]] =
                                         Last20(@ \o <<[role |-> "user",
                                                        content |-> <<message>>],
                                                       [role |-> "assistant",
                                                        content |-> out.text]>>)]
                                 ELSE conversations_db
                            /\ resp' = [op |-> "chat", status |-> 200,
                                        body |-> [response |-> out.text,
                                                  user_id |-> user_id]]
    /\ UNCHANGED <<app, serviceVars, calc, users_db, memory, configured, trackerVars, backendVars>>

profile_fields ==
    <<"name", "age", "height", "weight", "gender", "activity_level", "goal">>

BaseSaveProfile ==
    [name |-> Text("Sam"), age |-> Number(30), height |-> Number(175),
     weight |-> Number(70), gender |-> Text("male"),
     activity_level |-> Text("moderately_active"), goal |-> Text("lose_weight")]

\* the base request, and the base request with the name left out, with weight 0
\* and with a weight that is a string
SaveProfileRequests ==
    {BaseSaveProfile,
     [BaseSaveProfile EXCEPT !.name = Missing],
     [BaseSaveProfile EXCEPT !.weight = Number(0)],
     [BaseSaveProfile EXCEPT !.weight = Text("70")]}

\* not data.get(field)
Falsy(v) ==
    \/ v.kind = "missing"
    \/ v.kind = "number" /\ v.num = 0
    \/ v.kind = "text" /\ v.text = ""

\* POST /api/profile.  The calculators are called on the raw JSON values, so a
\* numeric field sent as a string raises TypeError in calculate_bmr.
SaveProfile ==
    /\ app = "enhanced_backend"
    /\ \E data \in SaveProfileRequests :
        /\ req' = data
        /\ IF \E i \in 1..Len(profile_fields) : Falsy(data[profile_fields[i]])
           THEN /\ resp' = [op |-> "save_profile", status |-> 400,
                            body |-> [error |-> "field is required"]]
                /\ UNCHANGED users_db
           ELSE IF \E f \in {"age", "height", "weight"} : data[f].kind # "number"
           THEN /\ resp' = [op |-> "save_profile", status |-> 500,
                            body |-> [error |-> "Error saving profile"]]
                /\ UNCHANGED users_db
           ELSE LET bmr == calculate_bmr(data.weight.num, data.height.num,
                                         data.age.num, TextOf(data.gender))
                    tdee == calculate_tdee(bmr, TextOf(data.activity_level))
                    user_profile ==
                        [name |-> TextOf(data.name), age |-> data.age.num,
                         height |-> data.height.num, weight |-> data.weight.num,
                         gender |-> TextOf(data.gender),
                         activity_level |-> TextOf(data.activity_level),
                         goal |-> TextOf(data.goal), bmr |-> bmr, tdee |-> tdee,
                         bmi_info |-> calculate_bmi_detailed(data.weight.num,
                                                             data.height.num),
                         calorie_targets |->
                             get_calorie_targets(tdee, TextOf(data.goal))]
                IN  /\ Len(users_db) < MaxProfiles
                    /\ users_db' = Append(users_db, user_profile)
                    /\ resp' = [op |-> "save_profile", status |-> 200,
                                body |-> [success |-> TRUE,
                                          user_id |-> Len(users_db) + 1,
                                          profile |-> user_profile]]
    /\ calls' = NoCalls
    /\ UNCHANGED <<app, serviceVars, calc, conversations_db, memory, configured, trackerVars,
                   backendVars>>

----------------------------------------------------------------------------
(* The response engines called directly: bodybae_rag.RAGSystem,              *)
(* bodybae_complete.LightweightHealthRAG, chatbot_service.ChatbotService     *)

EngineQueries == Queries \cup {"hello"}

\* the user ids of the sessions that chat; a dict without the key and a dict
\* with an empty list behave alike in these routes
ChatIds == {1, 2}
SessionIds == {None} \cup {Some(u) : u \in ChatIds}

\* the user_profile argument: None, or a profile with a name
UserProfiles == {None, Some([name |-> "Sam"]), Some([name |-> "Alex"])}

\* the exchanges that the one ConversationBufferMemory holds in one run
MaxTurns == 2

\* any(word in message.lower() for word in words), over EngineQueries
AnyKeywordIn(message, words) ==
    IF message = "hello" THEN "hello" \in words ELSE AnyWordIn(message, words)

\* RAGSystem._get_fallback_response: a canned text chosen by keyword; the
\* profile is not used
_get_fallback_response(query, user_profile) ==
    IF AnyKeywordIn(query, {"calorie", "calories", "eat", "food"})
    THEN <<"For weight loss, aim for a 500-750 calorie deficit.">>
    ELSE IF AnyKeywordIn(query, {"exercise", "workout", "hiit", "training"})
    THEN <<"For general fitness, aim for 150 minutes of moderate cardio">>
    ELSE IF AnyKeywordIn(query, {"weight loss", "lose weight", "fat loss"})
    THEN <<"Safe weight loss is 0.5-1 kg per week.">>
    ELSE IF AnyKeywordIn(query, {"muscle", "gain muscle", "build muscle", "bulking"})
    THEN <<"To build muscle: eat adequate protein">>
    ELSE IF AnyKeywordIn(query, {"bmi", "body mass index", "weight category"})
    THEN <<"BMI = weight(kg) / height(m)^2.">>
    ELSE IF AnyKeywordIn(query, {"nutrition", "diet", "protein", "carbs", "fats"})
    THEN <<"Aim for balanced nutrition">>
    ELSE IF AnyKeywordIn(query, {"recovery", "rest", "sleep", "sore"})
    THEN <<"Recovery is crucial!">>
    ELSE IF AnyKeywordIn(query, {"motivation", "motivated", "discipline", "consistent"})
    THEN <<"Motivation gets you started, but discipline keeps you going!">>
    ELSE <<"I'm here to help with your fitness journey!">>

\* RAGSystem.get_response.  use_fallback is set when no API key was found; the
\* chain keeps every exchange in the one memory of the RAGSystem object.
RagGetResponse ==
    /\ app = "bodybae_rag"
    /\ \E query \in EngineQueries, user_profile \in UserProfiles,
          answer \in Completions :
        /\ req' = [message |-> query, user_profile |-> user_profile]
        /\ IF ~configured
           THEN /\ resp' = [op |-> "get_response", status |-> 0,
                            body |-> [type |-> "str",
                                      text |-> _get_fallback_response(query,
                                                                      user_profile)]]
                /\ calls' = [NoCalls EXCEPT !.fallback = TRUE]
                /\ UNCHANGED memory
           ELSE IF answer = "raise"
           THEN /\ resp' = [op |-> "get_response", status |-> 0,
                            body |-> [type |-> "str",
                                      text |-> _get_fallback_response(query,
                                                                      user_profile)]]
                /\ calls' = [NoCalls EXCEPT !.generation = "raised",
                                            !.fallback = TRUE,
                                            !.history = memory]
                /\ UNCHANGED memory
           ELSE /\ Len(memory) < MaxTurns
                /\ resp' = [op |-> "get_response", status |-> 0,
                            body |-> [type |-> "str", text |-> <<answer>>]]
                /\ calls' = [NoCalls EXCEPT !.generation = "returned",
                                            !.history = memory]
                /\ memory' = Append(memory,
                                    [question |-> [profile |-> user_profile,
                                                   query |-> query],
                                     answer |-> answer,
                                     user |-> user_profile])
    /\ UNCHANGED <<app, serviceVars, calc, users_db, conversations_db, configured, trackerVars,
                   backendVars>>

\* LightweightHealthRAG.get_fallback_response; choice is hash(message) % 3, the
\* text is the sequence of its parts
get_fallback_response(message, user_profile, choice) ==
    LET name == IF user_profile # None THEN user_profile[1].name ELSE "there"
        pick(responses) == responses[choice + 1]
    IN  IF AnyKeywordIn(message, {"weight", "lose", "fat", "diet"})
        THEN pick(<<(<<"Hi", name, "For weight loss, focus on a caloric deficit">>),
                    (<<"Great question,", name, "Combine cardio with strength">>),
                    (<<"Remember", name, "weight loss is 80% diet">>)>>)
        ELSE IF AnyKeywordIn(message, {"muscle", "gain", "bulk", "strength"})
        THEN pick(<<(<<"Hey", name, "For muscle building, progressive overload">>),
                    (<<"Building muscle requires consistency,", name>>),
                    (<<"Great focus,", name, "Remember the three pillars">>)>>)
        ELSE IF AnyKeywordIn(message, {"eat", "food", "nutrition", "meal", "protein"})
        THEN pick(<<(<<name, "balanced nutrition is crucial!">>),
                    (<<"Good question,", name, "For optimal nutrition">>),
                    (<<"Nutrition tip for you,", name>>)>>)
        ELSE IF AnyKeywordIn(message, {"workout", "exercise", "train", "gym"})
        THEN pick(<<(<<name, "a balanced workout routine">>),
                    (<<"Great to see you interested in exercise,", name>>),
                    (<<"Exercise tip,", name>>)>>)
        ELSE IF AnyKeywordIn(message, {"motivat", "help", "stuck", "difficult", "hard"})
        THEN <<"I hear you,", name, "Remember, every small step counts.">>
        ELSE pick(<<(<<"Hi", name, "I'm here to help with your fitness journey.">>),
                    (<<"Great to chat with you,", name>>),
                    (<<"Hey", name, "Your health journey is unique.">>)>>)

\* what model_pipeline does: raise, return a text of fewer than 10 characters,
\* or return a longer text
Generations == {"raise", "ok", "generated answer"}

\* LightweightHealthRAG.generate_response.  retrieve_context catches its own
\* exceptions and returns "".
LightweightGenerateResponse ==
    /\ app = "bodybae_complete"
    /\ \E message \in EngineQueries, user_profile \in UserProfiles,
          encoder_ok \in BOOLEAN, generated_text \in Generations, choice \in 0..2 :
        /\ req' = [message |-> message, user_profile |-> user_profile]
        /\ IF ~configured
           THEN /\ resp' = [op |-> "generate_response", status |-> 0,
                            body |-> [type |-> "str",
                                      text |-> get_fallback_response(
                                                   message, user_profile, choice)]]
                /\ calls' = [NoCalls EXCEPT !.fallback = TRUE]
           ELSE LET made == [NoCalls EXCEPT
                               !.encode = IF encoder_ok THEN "returned" ELSE "raised"]
                IN  IF generated_text \in {"raise", "ok"}
                    THEN /\ resp' = [op |-> "generate_response", status |-> 0,
                                     body |-> [type |-> "str",
                                               text |-> get_fallback_response(
                                                   message, user_profile, choice)]]
                         /\ calls' = [made EXCEPT
                                        !.generation = IF generated_text = "raise"
                                                       THEN "raised" ELSE "returned",
                                        !.fallback = TRUE]
                    ELSE /\ resp' = [op |-> "generate_response", status |-> 0,
                                     body |-> [type |-> "str",
                                               text |-> <<generated_text>>]]
                         /\ calls' = [made EXCEPT !.generation = "returned"]
    /\ UNCHANGED <<app, serviceVars, calc, users_db, conversations_db, memory, configured,
                   trackerVars, backendVars>>

\* ChatbotService.process_message
ProcessMessage ==
    /\ app = "chatbot_service"
    /\ \E message \in EngineQueries, user_id \in SessionIds, answer \in Completions :
        /\ req' = [message |-> message, user_profile |-> None, user_id |-> user_id]
        /\ IF AnyKeywordIn(message, {"start", "begin", "hello", "hi"})
           THEN /\ resp' = [op |-> "process_message", status |-> 0,
                            body |-> [type |-> "onboarding",
                                      text |-> <<"Welcome to BodyBae!">>]]
                /\ calls' = NoCalls
                /\ UNCHANGED memory
           ELSE IF AnyKeywordIn(message, {"goal", "target", "achieve", "want to"})
           THEN /\ resp' = [op |-> "process_message", status |-> 0,
                            body |-> [type |-> "goal_setting",
                                      text |-> <<"Great! Let's set up your fitness goals.">>]]
                /\ calls' = NoCalls
                /\ UNCHANGED memory
           ELSE IF AnyKeywordIn(message, {"progress", "update", "log", "track"})
           THEN /\ resp' = [op |-> "process_message", status |-> 0,
                            body |-> [type |-> "progress_logging",
                                      text |-> <<"Time to log your progress!">>]]
                /\ calls' = NoCalls
                /\ UNCHANGED memory
           ELSE IF answer = "raise"
           THEN /\ resp' = [op |-> "process_message", status |-> 0,
                            body |-> [type |-> "error",
                                      text |-> <<"I'm having trouble processing that.">>]]
                /\ calls' = [NoCalls EXCEPT !.generation = "raised",
                                            !.history = memory]
                /\ UNCHANGED memory
           ELSE /\ Len(memory) < MaxTurns
                /\ resp' = [op |-> "process_message", status |-> 0,
                            body |-> [type |-> "chat", text |-> <<answer>>]]
                /\ calls' = [NoCalls EXCEPT !.generation = "returned",
                                            !.history = memory]
                /\ memory' = Append(memory,
                                    [question |-> [profile |-> None, query |-> message],
                                     answer |-> answer,
                                     user |-> user_id])
    /\ UNCHANGED <<app, serviceVars, calc, users_db, conversations_db, configured, trackerVars,
                   backendVars>>

\* before the first call, request and response
NoCall == [fn |-> "none", arg |-> [kind |-> "none"], out |-> <<>>]
NoRequest == <<>>
NoResponse == [op |-> "none", status |-> 0, body |-> <<>>]

----------------------------------------------------------------------------
\* The chat routes and their conversation stores: bodybae_main /advanced_chat,
\* enhanced_backend /api/chat, bodybae_complete /chat and clean_main_app /chat.
\* The answer of the engine is an opaque text here; the stored exchange carries
\* the time it was stored at.

\* the number of exchanges stored in one run
MaxClock == 11

\* message is "" when the field is absent or empty
ChatMessages == {"", "hi"}
Replies == {"reply"}

\* users_db of a chat route: user 1 has stored a profile, user 2 has not
StoredProfiles == <<[name |-> "Sam"]>>

\* the two dicts that one request appends
Exchange(message, response, now) ==
    <<[role |-> "user", content |-> message, timestamp |-> now],
      [role |-> "assistant", content |-> response, timestamp |-> now]>>

\* store_conversation with the slice written [:20]: the first 20 messages stay
store_conversation_head(db, user_id, message, response, now) ==
    IF user_id = None
    THEN db
    ELSE LET extended == db[user_id[1]] \o Exchange(message, response, now)
         IN  [db EXCEPT ![user_id[1]] = IF Len(extended) > 20
                                        THEN SubSeq(extended, 1, 20)
                                        ELSE extended]

\* bodybae_main.store_conversation, and the same lines of enhanced_backend.chat
store_conversation(db, user_id, message, response, now) ==
    IF user_id = None
    THEN db
    ELSE LET extended == db[user_id[1]] \o Exchange(message, response, now)
         IN  [db EXCEPT ![user_id[1]] = IF Len(extended) > 20
                                        THEN Last20(extended)
                                        ELSE extended]

\* the extend done on the list of every user
extend_history_everyone(db, user_id, message, response, now) ==
    IF user_id = None
    THEN db
    ELSE [u \in ChatIds |-> db[u] \o Exchange(message, response, now)]

\* bodybae_complete.chat and clean_main_app.chat: extend, and no trim
extend_history(db, user_id, message, response, now) ==
    IF user_id = None
    THEN db
    ELSE [db EXCEPT ![user_id[1]] = @ \o Exchange(message, response, now)]

\* chat_history_db[user_id][-6:]
get_recent_conversation(db, user_id) ==
    IF user_id = None
    THEN <<>>
    ELSE LET messages == db[user_id[1]]
         IN  IF Len(messages) > 6
             THEN SubSeq(messages, Len(messages) - 5, Len(messages))
             ELSE messages

\* a request that stores reads datetime.now()
Stamp(user_id) ==
    IF user_id = None
    THEN UNCHANGED clock
    ELSE /\ clock < MaxClock
         /\ clock' = clock + 1

\* HealthRAGSystem.get_health_response: an answer is saved to the memory of the
\* engine, a failure inside is answered by its fallback and saved nowhere
HealthOutcomes == {"answered", "fell back"}
SaveContext(outcome, message, response) ==
    IF outcome = "answered"
    THEN /\ Len(memory) < MaxExchanges
         /\ memory' = Append(memory, [question |-> message, answer |-> response])
    ELSE UNCHANGED memory

\* bodybae_main: POST /advanced_chat. profile_ok is FALSE when user_profile is
\* not a dict, which raises before anything is stored
AdvancedChat ==
    /\ app = "bodybae_main/advanced_chat"
    /\ \E message \in ChatMessages, user_id \in SessionIds, profile_ok \in BOOLEAN,
          outcome \in HealthOutcomes, response \in Replies :
        /\ req' = [message |-> message, user_id |-> user_id]
        /\ IF message = ""
           THEN /\ resp' = [op |-> "advanced_chat", status |-> 200,
                            body |-> [error |-> "Message is required"]]
                /\ calls' = NoCalls
                /\ UNCHANGED <<chat_history_db, clock, memory>>
           ELSE IF ~profile_ok
           THEN /\ resp' = [op |-> "advanced_chat", status |-> 200,
                            body |-> [source |-> "error_fallback"]]
                /\ calls' = NoCalls
                /\ UNCHANGED <<chat_history_db, clock, memory>>
           ELSE /\ calls' = [NoCalls EXCEPT
                               !.context = get_recent_conversation(chat_history_db,
                                                                   user_id),
                               !.generation = IF configured THEN "returned"
                                              ELSE "none",
                               !.fallback = ~configured \/ outcome = "fell back"]
                /\ IF configured
                   THEN SaveContext(outcome, message, response)
                   ELSE UNCHANGED memory
                /\ Stamp(user_id)
                /\ chat_history_db' = store_conversation(chat_history_db, user_id,
                                                         message, response, clock)
                /\ resp' = [op |-> "advanced_chat", status |-> 200,
                            body |-> [source |-> IF configured
                                                 THEN "rag_system"
                                                 ELSE "advanced_fallback"]]
    /\ UNCHANGED <<app, toolVars, calc, users_db, conversations_db, configured, trackerVars,
                   backendVars>>

\* enhanced_backend: POST /api/chat, the answer of generate_response taken as
\* given; it raises when the encoder raises
ApiChat ==
    /\ app = "enhanced_backend/api/chat"
    /\ \E message \in ChatMessages, user_id \in SessionIds, raised \in BOOLEAN,
          response \in Replies :
        /\ req' = [message |-> message, user_id |-> user_id]
        /\ calls' = NoCalls
        /\ IF message = ""
           THEN /\ resp' = [op |-> "chat", status |-> 400,
                            body |-> [error |-> "Message is required"]]
                /\ UNCHANGED <<chat_history_db, clock>>
           ELSE IF raised
           THEN /\ resp' = [op |-> "chat", status |-> 500,
                            body |-> [error |-> "Error processing your message"]]
                /\ UNCHANGED <<chat_history_db, clock>>
           ELSE /\ Stamp(user_id)
                /\ chat_history_db' = store_conversation(chat_history_db, user_id,
                                                         message, response, clock)
                /\ resp' = [op |-> "chat", status |-> 200,
                            body |-> [response |-> response]]
    /\ UNCHANGED <<app, toolVars, calc, users_db, conversations_db, memory, configured,
                   trackerVars, backendVars>>

\* bodybae_complete: POST /chat; an exception of the engine is answered by a
\* fixed text that is not stored
CompleteChat ==
    /\ app = "bodybae_complete/chat"
    /\ \E message \in ChatMessages, user_id \in SessionIds, raised \in BOOLEAN,
          response \in Replies :
        /\ req' = [message |-> message, user_id |-> user_id]
        /\ calls' = NoCalls
        /\ IF message = ""
           THEN /\ resp' = [op |-> "chat", status |-> 200,
                            body |-> [error |-> "Message is required"]]
                /\ UNCHANGED <<chat_history_db, clock>>
           ELSE IF raised
           THEN /\ resp' = [op |-> "chat", status |-> 200,
                            body |-> [response |-> "I'm here to help"]]
                /\ UNCHANGED <<chat_history_db, clock>>
           ELSE /\ Stamp(user_id)
                /\ chat_history_db' = extend_history(chat_history_db, user_id,
                                                     message, response, clock)
                /\ resp' = [op |-> "chat", status |-> 200,
                            body |-> [response |-> response]]
    /\ UNCHANGED <<app, toolVars, calc, users_db, conversations_db, memory, configured,
                   trackerVars, backendVars>>

\* clean_main_app: POST /chat; the engine or the rule-based answer, stored alike
CleanChat ==
    /\ app = "clean_main_app/chat"
    /\ \E message \in ChatMessages, user_id \in SessionIds,
          outcome \in HealthOutcomes, response \in Replies :
        /\ req' = [message |-> message, user_id |-> user_id]
        /\ calls' = NoCalls
        /\ IF message = ""
           THEN /\ resp' = [op |-> "chat", status |-> 400,
                            body |-> [error |-> "Message is required"]]
                /\ UNCHANGED <<chat_history_db, clock, memory>>
           ELSE /\ IF configured
                   THEN SaveContext(outcome, message, response)
                   ELSE UNCHANGED memory
                /\ Stamp(user_id)
                /\ chat_history_db' = extend_history(chat_history_db, user_id,
                                                     message, response, clock)
                /\ resp' = [op |-> "chat", status |-> 200,
                            body |-> [source |-> IF configured THEN "rag_system"
                                                 ELSE "fallback"]]
    /\ UNCHANGED <<app, toolVars, calc, users_db, conversations_db, configured, trackerVars,
                   backendVars>>

----------------------------------------------------------------------------
\* EnhancedHealthRAG.search_relevant_docs called directly, with its k

\* the number of calls in one run
MaxSearches == 3
SearchKs == {1, 3}

\* a search that leaves out what the search before it returned
search_relevant_docs_fresh(query, k) ==
    LET seen == IF searches = <<>> THEN <<>> ELSE searches[Len(searches)].out
    IN  SelectSeq(index_search(query, k),
                  LAMBDA d : /\ similarity(query)[d] > 30
                             /\ \A i \in 1..Len(seen) : seen[i] # d)

\* search_relevant_docs(query, k): of the k best documents those that score
\* above 0.3, best first
search_relevant_docs_k(query, k) ==
    SelectSeq(index_search(query, k), LAMBDA d : similarity(query)[d] > 30)

SearchRelevantDocs ==
    /\ app = "enhanced_backend/search"
    /\ Len(searches) < MaxSearches
    /\ \E query \in Queries, k \in SearchKs :
        searches' = Append(searches, [query |-> query, k |-> k,
                                      out |-> search_relevant_docs_k(query, k)])
    /\ UNCHANGED <<app, flowVars, historyVars, vs_db, faiss_index, threads, calc, req, resp,
                   storeVars>>

----------------------------------------------------------------------------
\* main.py: RAGProcessor and its VectorStore. The index in memory (self.db) and
\* the directory rag_system/faiss_index are sequences of chunks; vs_db is None
\* while the process is not running.

\* the number of texts added in one run of the model
MaxAdded == 3
AddedTexts == {"tip a", "tip b"}

\* the entries of rag_system/knowledge_base.json, each shorter than one chunk
KnowledgeBase == <<"qna 1", "qna 2">>

\* create_initial_vectorstore: the chunks FAISS.from_documents is given
create_initial_vectorstore ==
    [i \in 1..Len(KnowledgeBase) |->
        [page_content |-> KnowledgeBase[i], source |-> "knowledge_base.json"]]

\* initialize_vectorstore without the test of the directory: the index is
\* built anew at every start
initialize_vectorstore_rebuild(disk) ==
    [db |-> create_initial_vectorstore, disk |-> Some(create_initial_vectorstore)]

\* VectorStore.initialize_vectorstore: the index of the directory when there
\* is one, else a new index that is saved
initialize_vectorstore(disk) ==
    IF disk # None
    THEN [db |-> disk[1], disk |-> disk]
    ELSE [db |-> create_initial_vectorstore, disk |-> Some(create_initial_vectorstore)]

\* add_text with the new chunk put in front
add_text_front(chunks, text) ==
    <<[page_content |-> text, source |-> "user_added"]>> \o chunks

\* VectorStore.add_text: self.db.add_documents([new_doc])
add_text(chunks, text) ==
    Append(chunks, [page_content |-> text, source |-> "user_added"])

\* the chunks that add_text has added
UserAdded(chunks) == SelectSeq(chunks, LAMBDA c : c.source = "user_added")

\* the process starts: rag_processor = RAGProcessor()
StartProcess ==
    /\ app = "main"
    /\ vs_db = None
    /\ \E out \in {initialize_vectorstore(faiss_index)} :
        /\ vs_db' = Some(out.db)
        /\ faiss_index' = out.disk
    /\ req' = NoRequest
    /\ resp' = [op |-> "start", status |-> 0, body |-> <<>>]
    /\ UNCHANGED <<app, flowVars, historyVars, searches, threads, calc, storeVars>>

\* the process ends; the directory stays
ExitProcess ==
    /\ app = "main"
    /\ vs_db # None
    /\ vs_db' = None
    /\ req' = NoRequest
    /\ resp' = [op |-> "exit", status |-> 0, body |-> <<>>]
    /\ UNCHANGED <<app, flowVars, historyVars, searches, faiss_index, threads, calc, storeVars>>

\* RAGProcessor.add_to_knowledge(text): add_text, then save_local
AddToKnowledge ==
    /\ app = "main"
    /\ vs_db # None
    /\ Len(UserAdded(vs_db[1])) < MaxAdded
    /\ \E text \in AddedTexts :
        /\ req' = [text |-> text]
        /\ vs_db' = Some(add_text(vs_db[1], text))
        /\ faiss_index' = vs_db'
    /\ resp' = [op |-> "add_to_knowledge", status |-> 0, body |-> <<>>]
    /\ UNCHANGED <<app, flowVars, historyVars, searches, threads, calc, storeVars>>

\* RAGProcessor.process_query(query): the answer of the chain, or the fixed
\* text when the chain raises
ProcessQuery ==
    /\ app = "main"
    /\ vs_db # None
    /\ \E query \in Queries, answer \in Completions :
        /\ req' = [message |-> query]
        /\ resp' = [op |-> "process_query", status |-> 0,
                    body |-> IF answer = "raise"
                             THEN "I'm having trouble answering that right now."
                             ELSE answer]
    /\ UNCHANGED <<app, historyVars, toolVars, calc, storeVars>>

----------------------------------------------------------------------------
\* bodybae_backend served by threads (app.run handles every request in a
\* thread of its own): POST /api/onboard with a valid body, in the steps
\* between which another thread can run. threads[w] is the request that thread
\* w handles: where it is, and its local variables.

Workers == {1, 2}
Names == {"Ann", "Bob"}
Idle == [pc |-> "idle", name |-> "", user_id |-> 0]

\* the request is read, validated and its metrics are computed
OnboardReceive(w) ==
    /\ app = "bodybae_backend/threads"
    /\ threads[w].pc \in {"idle", "done"}
    /\ \E name \in Names :
        threads' = [threads EXCEPT ![w] = [pc |-> "validated", name |-> name,
                                           user_id |-> 0]]
    /\ UNCHANGED <<app, flowVars, historyVars, searches, vs_db, faiss_index, calc, req, resp,
                   storeVars>>

\* user_id = f"user_{len(users) + 1}"
OnboardComputeId(w) ==
    /\ app = "bodybae_backend/threads"
    /\ threads[w].pc = "validated"
    /\ Len(users) < MaxUsers
    /\ threads' = [threads EXCEPT ![w].pc = "computed",
                                  ![w].user_id = Len(users) + 1]
    /\ UNCHANGED <<app, flowVars, historyVars, searches, vs_db, faiss_index, calc, req, resp,
                   storeVars>>

\* users[user_id] = {**data, ...}, and the response that carries user_id
OnboardStore(w) ==
    /\ app = "bodybae_backend/threads"
    /\ threads[w].pc = "computed"
    /\ users' = store_user(users, threads[w].user_id, [name |-> threads[w].name])
    /\ threads' = [threads EXCEPT ![w].pc = "done"]
    /\ UNCHANGED <<app, flowVars, historyVars, searches, vs_db, faiss_index, calc, req, resp,
                   trackerVars, mainVars, chatVars>>

OnboardThread ==
    \E w \in Workers :
        \/ OnboardReceive(w)
        \/ OnboardComputeId(w)
        \/ OnboardStore(w)

----------------------------------------------------------------------------
\* bodybae_main served by threads: store_conversation for one user id, in the
\* steps between which another thread can run (the lines of enhanced_backend's
\* chat are the same). The list of the user is there and holds the exchanges of
\* earlier requests, stamped with the times before the run.

\* the number of exchanges stored in one run with requests in flight
MaxInFlight == 3

\* the list after n requests handled one at a time
RECURSIVE EarlierExchanges(_)
EarlierExchanges(n) ==
    IF n = 0 THEN <<>> ELSE Exchange("hi", "reply", 0 - n) \o EarlierExchanges(n - 1)

IdleChat == [pc |-> "idle", stamp |-> 0, temp |-> <<>>]

\* a reassignment that keeps what the list has got since the slice
reassign_keeping_later(db, user_id, temp) ==
    [db EXCEPT ![user_id] =
        temp \o SelectSeq(@, LAMBDA m : m.timestamp > temp[Len(temp)].timestamp)]

\* chat_history_db[user_id] = <the slice>
reassign(db, user_id, temp) == [db EXCEPT ![user_id] = temp]

\* the request is read and answered
ChatReceive(w) ==
    /\ app = "bodybae_main/threads"
    /\ threads[w].pc \in {"idle", "done"}
    /\ threads' = [threads EXCEPT ![w] = [IdleChat EXCEPT !.pc = "answered"]]
    /\ UNCHANGED <<app, flowVars, historyVars, searches, vs_db, faiss_index, calc, req, resp,
                   storeVars>>

\* chat_history_db[user_id].extend([...]): one call on the list of the dict
ChatExtend(w) ==
    /\ app = "bodybae_main/threads"
    /\ threads[w].pc = "answered"
    /\ clock < MaxInFlight
    /\ chat_history_db' = extend_history(chat_history_db, Some(1), "hi", "reply",
                                         clock)
    /\ clock' = clock + 1
    /\ threads' = [threads EXCEPT ![w].pc = "extended", ![w].stamp = clock]
    /\ UNCHANGED <<app, flowVars, searches, vs_db, faiss_index, calc, req, resp, storeVars>>

\* if len(chat_history_db[user_id]) > 20
ChatCheckLen(w) ==
    /\ app = "bodybae_main/threads"
    /\ threads[w].pc = "extended"
    /\ threads' = [threads EXCEPT ![w].pc = IF Len(chat_history_db[1]) > 20
                                            THEN "trimming"
                                            ELSE "done"]
    /\ UNCHANGED <<app, flowVars, historyVars, searches, vs_db, faiss_index, calc, req, resp,
                   storeVars>>

\* chat_history_db[user_id][-20:], a new list
ChatSlice(w) ==
    /\ app = "bodybae_main/threads"
    /\ threads[w].pc = "trimming"
    /\ threads' = [threads EXCEPT ![w].pc = "sliced",
                                  ![w].temp = Last20(chat_history_db[1])]
    /\ UNCHANGED <<app, flowVars, historyVars, searches, vs_db, faiss_index, calc, req, resp,
                   storeVars>>

\* chat_history_db[user_id] = ..., and the response
ChatReassign(w) ==
    /\ app = "bodybae_main/threads"
    /\ threads[w].pc = "sliced"
    /\ chat_history_db' = reassign(chat_history_db, 1, threads[w].temp)
    /\ threads' = [threads EXCEPT ![w].pc = "done", ![w].temp = <<>>]
    /\ UNCHANGED <<app, flowVars, clock, searches, vs_db, faiss_index, calc, req, resp,
                   storeVars>>

ChatThread ==
    \E w \in Workers :
        \/ ChatReceive(w)
        \/ ChatExtend(w)
        \/ ChatCheckLen(w)
        \/ ChatSlice(w)
        \/ ChatReassign(w)

----------------------------------------------------------------------------
----------------------------------------------------------------------------
\* main.py: POST /api/chat. users_db maps a user id to its onboarding record
\* {'step', 'data'}, goals_db to its goal, progress_db to its logged weights;
\* a key that is not in a dict maps to None (progress_db: to the empty list).

MainUserIds == {"default", "u1"}
MainMessages ==
    {"hi", "Sam", "30", "lose weight", "3 months", "x months", "log weight 70",
     "log weight", "what about diet"}

\* the number of weights one user logs in one run of the model
MaxLogged == 2

\* int(message) / float(message): None when it raises ValueError
NumberIn(message) ==
    CASE message = "30" -> Some(30)
      [] OTHER -> None

NoData ==
    [name |-> None, age |-> None, height |-> None, weight |-> None, sex |-> None,
     activity |-> None, bmi |-> None]

\* the steps of the onboarding flow, in the order handle_onboarding moves through
OnboardingSteps == <<"name", "age", "height", "weight", "sex", "activity", "complete">>

\* handle_onboarding: the dict and the answer it leaves; raised when a
\* conversion or the division of the BMI raises (the route has no try block)
handle_onboarding(db, user_id, message) ==
    IF db[user_id] = None
    THEN [db |-> [db EXCEPT ![user_id] = Some([step |-> "name", data |-> NoData])],
          raised |-> FALSE, response |-> "welcome"]
    ELSE LET user_data == db[user_id][1]
             current_step == user_data.step
             number == NumberIn(message)
             put(record) == [db EXCEPT ![user_id] = Some(record)]
             failed == [db |-> db, raised |-> TRUE, response |-> ""]
         IN  CASE current_step = "name" ->
                    [db |-> put([step |-> "age",
                                 data |-> [user_data.data EXCEPT !.name = Some(message)]]),
                     raised |-> FALSE, response |-> "how old"]
               [] current_step = "age" ->
                    IF number = None THEN failed
                    ELSE [db |-> put([step |-> "height",
                                      data |-> [user_data.data EXCEPT !.age = number]]),
                          raised |-> FALSE, response |-> "height"]
               [] current_step = "height" ->
                    IF number = None THEN failed
                    ELSE [db |-> put([step |-> "weight",
                                      data |-> [user_data.data EXCEPT !.height = number]]),
                          raised |-> FALSE, response |-> "weight"]
               [] current_step = "weight" ->
                    IF number = None THEN failed
                    ELSE [db |-> put([step |-> "sex",
                                      data |-> [user_data.data EXCEPT !.weight = number]]),
                          raised |-> FALSE, response |-> "sex"]
               [] current_step = "sex" ->
                    [db |-> put([step |-> "activity",
                                 data |-> [user_data.data EXCEPT !.sex = Some(message)]]),
                     raised |-> FALSE, response |-> "activity"]
               [] current_step = "activity" ->
                    LET data == [user_data.data EXCEPT !.activity = Some(message)]
                    IN  IF data.height[1] = 0
                        THEN [db |-> put([step |-> "complete", data |-> data]),
                              raised |-> TRUE, response |-> ""]
                        ELSE [db |-> put([step |-> "complete",
                                          data |-> [data EXCEPT !.bmi =
                                              Some(BmiRounded(data.weight[1],
                                                              data.height[1]))]]),
                              raised |-> FALSE, response |-> "onboarding complete"]
               [] OTHER ->
                    \* no branch for 'complete': the function returns None
                    failed

\* chat: if not users_db.get(user_id)
routed_to_onboarding(db, user_id) == db[user_id] = None

MainGoals ==
    {"lose weight", "gain weight", "gain muscle", "lose fat", "toning",
     "maintain weight"}

\* 'month' in message, and int(message.split()[0])
HasMonth(message) == message \in {"3 months", "x months"}
MonthsIn(message) == IF message = "3 months" THEN Some(3) ELSE None

\* message.lower().startswith("log weight"), and float(message.split()[2])
IsLogWeight(message) == message \in {"log weight 70", "log weight"}
LoggedWeight(message) == IF message = "log weight 70" THEN Some(70) ELSE None

\* is_health_question
is_health_question(message) ==
    message \in {"lose weight", "log weight 70", "log weight", "what about diet"}

\* generate_goal_plan: which of its three texts
generate_goal_plan(goal, months) ==
    IF goal = "Lose Weight" THEN [plan |-> "loss", months |-> months]
    ELSE IF goal = "Gain Weight" THEN [plan |-> "gain", months |-> months]
    ELSE [plan |-> "general", months |-> months]

\* process_message: the goal and the progress list of the user after the
\* message, and the answer; answer is what the chain of process_query does
process_message(goal, progress, message, now, answer) ==
    IF message \in MainGoals
    THEN [goal |-> Some([goal |-> message, start_date |-> now, target_date |-> None]),
          progress |-> progress, response |-> [kind |-> "goal_set"]]
    ELSE IF goal # None /\ goal[1].target_date = None /\ HasMonth(message)
    THEN IF MonthsIn(message) = None
         THEN [goal |-> goal, progress |-> progress,
               response |-> [kind |-> "valid timeframe"]]
         ELSE [goal |-> Some([goal[1] EXCEPT !.target_date = MonthsIn(message)]),
               progress |-> progress,
               response |-> [kind |-> "goal_plan",
                             text |-> generate_goal_plan(goal[1].goal,
                                                         MonthsIn(message)[1])]]
    ELSE IF IsLogWeight(message)
    THEN IF LoggedWeight(message) = None
         THEN [goal |-> goal, progress |-> progress,
               response |-> [kind |-> "use format"]]
         ELSE [goal |-> goal,
               progress |-> Append(progress, [date |-> now,
                                              weight |-> LoggedWeight(message)[1]]),
               response |-> [kind |-> "logged"]]
    ELSE IF is_health_question(message)
    THEN [goal |-> goal, progress |-> progress,
          response |-> [kind |-> "rag",
                        text |-> IF answer = "raise"
                                 THEN "I'm having trouble answering that right now."
                                 ELSE answer]]
    ELSE [goal |-> goal, progress |-> progress, response |-> [kind |-> "default"]]

\* POST /api/chat
MainChat ==
    /\ app = "main/chat"
    /\ \E user_id \in MainUserIds, message \in MainMessages, answer \in Completions :
        /\ req' = [user_id |-> user_id, message |-> message]
        /\ IF routed_to_onboarding(users_db, user_id)
           THEN \E out \in {handle_onboarding(users_db, user_id, message)} :
                   /\ users_db' = out.db
                   /\ resp' = [op |-> "chat", via |-> "handle_onboarding",
                               status |-> IF out.raised THEN 500 ELSE 200,
                               body |-> [kind |-> out.response]]
                   /\ UNCHANGED flowVars
           ELSE \E out \in {process_message(goals_db[user_id], progress_db[user_id],
                                            message, today, answer)} :
                   /\ Len(out.progress) <= MaxLogged
                   /\ goals_db' = [goals_db EXCEPT ![user_id] = out.goal]
                   /\ progress_db' = [progress_db EXCEPT ![user_id] = out.progress]
                   /\ resp' = [op |-> "chat", via |-> "process_message",
                               status |-> 200, body |-> out.response]
                   /\ UNCHANGED users_db
    /\ UNCHANGED <<app, historyVars, searches, vs_db, faiss_index, threads, calc,
                   trackerVars, backendVars, chatVars>>

----------------------------------------------------------------------------
\* bodybae_backend.find_best_response. A string is the sequence of its
\* characters, so that lower() and the test `keyword in message_lower` are
\* computed on the characters.

UpperCase ==
    <<"A", "B", "C", "D", "E", "F", "G", "H", "I", "J", "K", "L", "M", "N", "O", "P",
      "Q", "R", "S", "T", "U", "V", "W", "X", "Y", "Z">>
LowerCase ==
    <<"a", "b", "c", "d", "e", "f", "g", "h", "i", "j", "k", "l", "m", "n", "o", "p",
      "q", "r", "s", "t", "u", "v", "w", "x", "y", "z">>

\* str.lower()
lower(s) ==
    [i \in 1..Len(s) |->
        IF \E k \in 1..Len(UpperCase) : UpperCase[k] = s[i]
        THEN LowerCase[CHOOSE k \in 1..Len(UpperCase) : UpperCase[k] = s[i]]
        ELSE s[i]]

\* part in s
In(part, s) ==
    \E at \in 0..(Len(s) - Len(part)) :
        \A i \in 1..Len(part) : s[at + i] = part[i]

\* FAQ_KNOWLEDGE in the order of the dict: the topic, its keywords as they are
\* written, and the number of its responses
FAQ_KNOWLEDGE ==
    <<
      [topic |-> "protein", responses |-> 10,
       keywords |-> <<
            <<"p", "r", "o", "t", "e", "i", "n">>,
            <<"w", "h", "e", "y">>,
            <<"m", "u", "s", "c", "l", "e">>,
            <<"s", "u", "p", "p", "l", "e", "m", "e", "n", "t">>,
            <<"a", "m", "i", "n", "o">>,
            <<"c", "a", "s", "e", "i", "n">>,
            <<"p", "l", "a", "n", "t", " ", "p", "r", "o", "t", "e", "i", "n">>,
            <<"p", "e", "a", " ", "p", "r", "o", "t", "e", "i", "n">>,
            <<"b", "e", "s", "t", " ", "p", "r", "o", "t", "e", "i", "n", " ", "p", "o", "w", "d", "e", "r">>,
            <<"h", "o", "w", " ", "m", "u", "c", "h", " ", "p", "r", "o", "t", "e", "i", "n">>,
            <<"h", "i", "g", "h", " ", "p", "r", "o", "t", "e", "i", "n", " ", "f", "o", "o", "d", "s">>>>],
      [topic |-> "calories", responses |-> 10,
       keywords |-> <<
            <<"c", "a", "l", "o", "r", "i", "e", "s">>,
            <<"t", "d", "e", "e">>,
            <<"b", "m", "r">>,
            <<"e", "n", "e", "r", "g", "y">>,
            <<"d", "e", "f", "i", "c", "i", "t">>,
            <<"s", "u", "r", "p", "l", "u", "s">>,
            <<"m", "a", "i", "n", "t", "e", "n", "a", "n", "c", "e">>,
            <<"m", "a", "c", "r", "o", "s">>,
            <<"c", "u", "t", "t", "i", "n", "g">>,
            <<"b", "u", "l", "k", " ", "c", "a", "l", "o", "r", "i", "e", "s">>,
            <<"h", "o", "w", " ", "m", "a", "n", "y", " ", "c", "a", "l", "o", "r", "i", "e", "s">>,
            <<"c", "a", "l", "o", "r", "i", "e", " ", "c", "a", "l", "c", "u", "l", "a", "t", "o", "r">>>>],
      [topic |-> "workout", responses |-> 10,
       keywords |-> <<
            <<"w", "o", "r", "k", "o", "u", "t">>,
            <<"e", "x", "e", "r", "c", "i", "s", "e">>,
            <<"h", "i", "i", "t">>,
            <<"t", "r", "a", "i", "n", "i", "n", "g">>,
            <<"g", "y", "m">>,
            <<"c", "a", "r", "d", "i", "o">>,
            <<"s", "t", "r", "e", "n", "g", "t", "h">>,
            <<"h", "o", "m", "e", " ", "w", "o", "r", "k", "o", "u", "t">>,
            <<"m", "o", "b", "i", "l", "i", "t", "y">>,
            <<"b", "e", "s", "t", " ", "e", "x", "e", "r", "c", "i", "s", "e", "s">>,
            <<"f", "a", "t", " ", "b", "u", "r", "n", "i", "n", "g", " ", "w", "o", "r", "k", "o", "u", "t", "s">>,
            <<"t", "r", "a", "i", "n", "i", "n", "g", " ", "s", "p", "l", "i", "t">>>>],
      [topic |-> "diet", responses |-> 10,
       keywords |-> <<
            <<"d", "i", "e", "t">>,
            <<"n", "u", "t", "r", "i", "t", "i", "o", "n">>,
            <<"f", "o", "o", "d">>,
            <<"m", "e", "a", "l">>,
            <<"e", "a", "t">>,
            <<"m", "a", "c", "r", "o">>,
            <<"c", "a", "r", "b">>,
            <<"f", "a", "t">>,
            <<"f", "i", "b", "e", "r">>,
            <<"c", "l", "e", "a", "n", " ", "e", "a", "t", "i", "n", "g">>,
            <<"h", "e", "a", "l", "t", "h", "y", " ", "s", "n", "a", "c", "k", "s">>,
            <<"m", "e", "a", "l", " ", "p", "l", "a", "n">>,
            <<"l", "o", "w", " ", "c", "a", "r", "b">>,
            <<"k", "e", "t", "o">>,
            <<"i", "n", "t", "e", "r", "m", "i", "t", "t", "e", "n", "t", " ", "f", "a", "s", "t", "i", "n", "g">>>>],
      [topic |-> "supplements", responses |-> 10,
       keywords |-> <<
            <<"s", "u", "p", "p", "l", "e", "m", "e", "n", "t">>,
            <<"v", "i", "t", "a", "m", "i", "n">>,
            <<"p", "r", "e", "-", "w", "o", "r", "k", "o", "u", "t">>,
            <<"b", "c", "a", "a">>,
            <<"c", "r", "e", "a", "t", "i", "n", "e">>,
            <<"o", "m", "e", "g", "a">>,
            <<"m", "u", "l", "t", "i", "v", "i", "t", "a", "m", "i", "n">>,
            <<"m", "a", "g", "n", "e", "s", "i", "u", "m">>,
            <<"e", "l", "e", "c", "t", "r", "o", "l", "y", "t", "e">>,
            <<"g", "r", "e", "e", "n", "s", " ", "p", "o", "w", "d", "e", "r">>,
            <<"w", "h", "a", "t", " ", "s", "u", "p", "p", "l", "e", "m", "e", "n", "t", "s", " ", "s", "h", "o", "u", "l", "d", " ", "I", " ", "t", "a", "k", "e">>,
            <<"b", "e", "s", "t", " ", "s", "u", "p", "p", "l", "e", "m", "e", "n", "t", "s", " ", "f", "o", "r", " ", "m", "u", "s", "c", "l", "e">>>>],
      [topic |-> "hydration", responses |-> 10,
       keywords |-> <<
            <<"w", "a", "t", "e", "r">>,
            <<"h", "y", "d", "r", "a", "t", "i", "o", "n">>,
            <<"d", "r", "i", "n", "k">>,
            <<"f", "l", "u", "i", "d">>,
            <<"t", "h", "i", "r", "s", "t", "y">>,
            <<"e", "l", "e", "c", "t", "r", "o", "l", "y", "t", "e">>,
            <<"d", "e", "h", "y", "d", "r", "a", "t", "i", "o", "n">>,
            <<"s", "p", "o", "r", "t", "s", " ", "d", "r", "i", "n", "k">>,
            <<"h", "o", "w", " ", "m", "u", "c", "h", " ", "w", "a", "t", "e", "r">>,
            <<"b", "e", "s", "t", " ", "d", "r", "i", "n", "k", " ", "a", "f", "t", "e", "r", " ", "w", "o", "r", "k", "o", "u", "t">>>>],
      [topic |-> "motivation", responses |-> 10,
       keywords |-> <<
            <<"m", "o", "t", "i", "v", "a", "t", "i", "o", "n">>,
            <<"g", "o", "a", "l">>,
            <<"p", "r", "o", "g", "r", "e", "s", "s">>,
            <<"p", "l", "a", "t", "e", "a", "u">>,
            <<"s", "t", "u", "c", "k">>,
            <<"h", "e", "l", "p">>,
            <<"d", "i", "s", "c", "i", "p", "l", "i", "n", "e">>,
            <<"r", "o", "u", "t", "i", "n", "e">>,
            <<"c", "o", "n", "s", "i", "s", "t", "e", "n", "c", "y">>,
            <<"v", "i", "s", "u", "a", "l", "i", "z", "e">>,
            <<"w", "h", "y", " ", "a", "m", " ", "I", " ", "n", "o", "t", " ", "l", "o", "s", "i", "n", "g", " ", "w", "e", "i", "g", "h", "t">>>>],
      [topic |-> "weight_loss", responses |-> 10,
       keywords |-> <<
            <<"w", "e", "i", "g", "h", "t", " ", "l", "o", "s", "s">>,
            <<"l", "o", "s", "e", " ", "w", "e", "i", "g", "h", "t">>,
            <<"f", "a", "t", " ", "l", "o", "s", "s">>,
            <<"c", "u", "t", "t", "i", "n", "g">>,
            <<"d", "e", "f", "i", "c", "i", "t">>,
            <<"b", "u", "r", "n">>,
            <<"h", "o", "w", " ", "t", "o", " ", "l", "o", "s", "e", " ", "b", "e", "l", "l", "y", " ", "f", "a", "t">>,
            <<"f", "a", "t", " ", "b", "u", "r", "n", "i", "n", "g", " ", "f", "o", "o", "d", "s">>>>],
      [topic |-> "muscle_gain", responses |-> 10,
       keywords |-> <<
            <<"m", "u", "s", "c", "l", "e">>,
            <<"g", "a", "i", "n">>,
            <<"b", "u", "l", "k">>,
            <<"s", "t", "r", "e", "n", "g", "t", "h">>,
            <<"m", "a", "s", "s">>,
            <<"b", "u", "i", "l", "d">>,
            <<"h", "o", "w", " ", "t", "o", " ", "g", "a", "i", "n", " ", "m", "u", "s", "c", "l", "e", " ", "f", "a", "s", "t">>,
            <<"b", "e", "s", "t", " ", "f", "o", "o", "d", "s", " ", "f", "o", "r", " ", "m", "u", "s", "c", "l", "e">>>>],
      [topic |-> "recovery", responses |-> 10,
       keywords |-> <<
            <<"r", "e", "c", "o", "v", "e", "r", "y">>,
            <<"r", "e", "s", "t">>,
            <<"s", "l", "e", "e", "p">>,
            <<"s", "o", "r", "e">>,
            <<"p", "a", "i", "n">>,
            <<"i", "n", "j", "u", "r", "y">>,
            <<"d", "e", "l", "o", "a", "d">>,
            <<"m", "u", "s", "c", "l", "e", " ", "r", "e", "c", "o", "v", "e", "r", "y">>,
            <<"p", "o", "s", "t", " ", "w", "o", "r", "k", "o", "u", "t", " ", "r", "e", "c", "o", "v", "e", "r", "y">>>>],
      [topic |-> "cardio", responses |-> 10,
       keywords |-> <<
            <<"c", "a", "r", "d", "i", "o">>,
            <<"r", "u", "n", "n", "i", "n", "g">>,
            <<"a", "e", "r", "o", "b", "i", "c">>,
            <<"e", "n", "d", "u", "r", "a", "n", "c", "e">>,
            <<"s", "t", "a", "m", "i", "n", "a">>,
            <<"b", "e", "s", "t", " ", "c", "a", "r", "d", "i", "o", " ", "f", "o", "r", " ", "f", "a", "t", " ", "l", "o", "s", "s">>,
            <<"h", "o", "w", " ", "m", "u", "c", "h", " ", "c", "a", "r", "d", "i", "o">>>>],
      [topic |-> "flexibility", responses |-> 10,
       keywords |-> <<
            <<"s", "t", "r", "e", "t", "c", "h">>,
            <<"f", "l", "e", "x", "i", "b", "i", "l", "i", "t", "y">>,
            <<"y", "o", "g", "a">>,
            <<"m", "o", "b", "i", "l", "i", "t", "y">>,
            <<"w", "a", "r", "m">>,
            <<"h", "o", "w", " ", "t", "o", " ", "i", "m", "p", "r", "o", "v", "e", " ", "f", "l", "e", "x", "i", "b", "i", "l", "i", "t", "y">>>>],
      [topic |-> "general_health", responses |-> 10,
       keywords |-> <<
            <<"h", "e", "a", "l", "t", "h">>,
            <<"w", "e", "l", "l", "b", "e", "i", "n", "g">>,
            <<"s", "t", "r", "e", "s", "s">>,
            <<"s", "l", "e", "e", "p">>,
            <<"m", "e", "n", "t", "a", "l", " ", "h", "e", "a", "l", "t", "h">>,
            <<"l", "i", "f", "e", "s", "t", "y", "l", "e">>,
            <<"e", "n", "e", "r", "g", "y">>,
            <<"l", "o", "n", "g", "e", "v", "i", "t", "y">>,
            <<"i", "m", "m", "u", "n", "e">>,
            <<"b", "e", "s", "t", " ", "d", "a", "i", "l", "y", " ", "h", "a", "b", "i", "t", "s">>>>]>>

\* the messages: a keyword written with a capital, one and two keywords of one
\* topic, two topics with two keywords each, three topics of which the last has
\* the most, a greeting, a farewell, neither, and a question about the user's own
\* calories
FaqMessages ==
    {<<"w", "h", "y", " ", "a", "m", " ", "I", " ", "n", "o", "t", " ", "l", "o", "s", "i", "n", "g", " ", "w", "e", "i", "g", "h", "t">>,
     <<"H", "o", "w", " ", "m", "u", "c", "h", " ", "p", "r", "o", "t", "e", "i", "n">>,
     <<"c", "u", "t", "t", "i", "n", "g", " ", "d", "e", "f", "i", "c", "i", "t">>,
     <<"m", "u", "s", "c", "l", "e", " ", "s", "t", "r", "e", "n", "g", "t", "h">>,
     <<"h", "e", "l", "l", "o">>,
     <<"t", "h", "a", "n", "k", "s">>,
     <<"x", "y", "z">>,
     <<"m", "y", " ", "c", "a", "l", "o", "r", "i", "e", "s">>}

PersonalWords ==
    {<<"m", "y", " ", "c", "a", "l", "o", "r", "i", "e", "s">>,
     <<"h", "o", "w", " ", "m", "a", "n", "y", " ", "c", "a", "l", "o", "r", "i", "e", "s">>,
     <<"m", "y", " ", "m", "a", "c", "r", "o", "s">>,
     <<"m", "y", " ", "t", "d", "e", "e">>,
     <<"m", "y", " ", "b", "m", "r">>}
GreetingWords ==
    {<<"h", "e", "l", "l", "o">>, <<"h", "i">>, <<"h", "e", "y">>, <<"s", "t", "a", "r", "t">>}
FarewellWords ==
    {<<"t", "h", "a", "n", "k">>,
     <<"t", "h", "a", "n", "k", "s">>,
     <<"b", "y", "e">>,
     <<"g", "o", "o", "d", "b", "y", "e">>}

\* user_profile: absent or empty, without 'tdee', and as onboarding and set_goal
\* leave it
FaqProfiles ==
    {None,
     Some([tdee |-> None, bmr |-> None, goal |-> None]),
     Some([tdee |-> Some(2555), bmr |-> Some(1648), goal |-> None]),
     Some([tdee |-> Some(2555), bmr |-> Some(1648), goal |-> Some("Lose Weight")])}

\* sum(1 for keyword in data["keywords"] if keyword in message_lower)
matches(keywords, message_lower) ==
    Cardinality({k \in 1..Len(keywords) : In(keywords[k], message_lower)})

\* the loop of find_best_response
RECURSIVE best_match_first(_, _, _, _)
best_match_first(t, best_match, max_matches, message_lower) ==
    IF t > Len(FAQ_KNOWLEDGE) THEN best_match
    ELSE LET n == matches(FAQ_KNOWLEDGE[t].keywords, message_lower)
         IN  IF n > max_matches
             THEN best_match_first(t + 1, t, n, message_lower)
             ELSE best_match_first(t + 1, best_match, max_matches, message_lower)

\* the personal branch is taken
personal_branch(message_lower, user_profile) ==
    /\ user_profile # None
    /\ \E word \in PersonalWords : In(word, message_lower)
    /\ user_profile[1].tdee # None

\* find_best_response: the strings it can return (random.choice takes any of the
\* responses of the topic)
find_best_response(message, user_profile) ==
    LET message_lower == lower(message)
        best_match == best_match_first(1, 0, 0, message_lower)
    IN  IF personal_branch(message_lower, user_profile)
        THEN LET p == user_profile[1]
                 goal == IF p.goal = None THEN "Maintain Weight" ELSE p.goal[1]
             IN  {[kind |-> "personal", bmr |-> p.bmr, tdee |-> p.tdee[1],
                   target |-> IF goal # "Maintain Weight"
                              THEN calculate_goal_calories(p.tdee[1], goal)
                              ELSE p.tdee[1]]}
        ELSE IF best_match # 0
        THEN {[kind |-> "faq", topic |-> FAQ_KNOWLEDGE[best_match].topic, choice |-> c] :
                 c \in 1..FAQ_KNOWLEDGE[best_match].responses}
        ELSE IF \E word \in GreetingWords : In(word, message_lower)
        THEN {[kind |-> "greeting"]}
        ELSE IF \E word \in FarewellWords : In(word, message_lower)
        THEN {[kind |-> "farewell"]}
        ELSE {[kind |-> "default"]}

\* a call of find_best_response
FindBestResponse ==
    /\ app = "bodybae_backend/find_best_response"
    /\ \E message \in FaqMessages, user_profile \in FaqProfiles :
        \E out \in find_best_response(message, user_profile) :
            calc' = [fn |-> "find_best_response",
                     arg |-> [message |-> message, user_profile |-> user_profile],
                     out |-> out]
    /\ UNCHANGED <<app, req, resp, serviceVars, storeVars>>

Apps ==
    {"calculators", "bodybae-app", "bodybae_backend", "bodybae_main",
     "enhanced_backend", "bodybae_rag", "bodybae_complete", "chatbot_service",
     "bodybae_main/advanced_chat", "enhanced_backend/api/chat",
     "bodybae_complete/chat", "clean_main_app/chat", "enhanced_backend/search",
     "main", "bodybae_backend/threads", "bodybae_main/threads", "main/chat",
     "bodybae_backend/find_best_response"}

\* the programs that are run with requests in flight
ThreadApps == {"bodybae_backend/threads", "bodybae_main/threads"}

\* the chat routes start with a stored profile
ChatRoutes ==
    {"bodybae_main/advanced_chat", "enhanced_backend/api/chat",
     "bodybae_complete/chat", "clean_main_app/chat"}

InitOf(a) ==
    /\ app = a
    /\ IF a = "calculators"
       THEN calc \in [fn : {"none"}, arg : CalcArgs, out : {<<>>}]
       ELSE calc = NoCall
    /\ req = NoRequest
    /\ resp = NoResponse
    /\ today = 0
    /\ db_users = <<>>
    /\ db_logs = <<>>
    /\ db_goals = <<>>
    /\ users = <<>>
    /\ users_db = IF a \in ChatRoutes THEN StoredProfiles
                  ELSE IF a = "main/chat" THEN [u \in MainUserIds |-> None]
                  ELSE <<>>
    /\ goals_db = [u \in MainUserIds |-> None]
    /\ progress_db = [u \in MainUserIds |-> <<>>]
    /\ conversations_db = [u \in ChatUserIds |-> <<>>]
    /\ memory = <<>>
    /\ calls = NoCalls
    /\ IF a = "bodybae_main/threads"
       THEN \E n \in {9, 10} :
               chat_history_db = [u \in ChatIds |-> IF u = 1 THEN EarlierExchanges(n)
                                                    ELSE <<>>]
       ELSE chat_history_db = [u \in ChatIds |-> <<>>]
    /\ clock = 0
    /\ searches = <<>>
    /\ vs_db = None
    /\ faiss_index = None
    /\ threads = IF a = "bodybae_backend/threads" THEN [w \in Workers |-> Idle]
                 ELSE IF a = "bodybae_main/threads" THEN [w \in Workers |-> IdleChat]
                 ELSE <<>>
    /\ IF a \in {"enhanced_backend", "bodybae_rag", "bodybae_complete",
                 "bodybae_main/advanced_chat", "clean_main_app/chat"}
       THEN configured \in BOOLEAN
       ELSE configured = FALSE

Init == \E a \in Apps : InitOf(a)

NextCalculators ==
    \/ CalculateBmi
    \/ CalculateBmiDetailed
    \/ GetBmiCategory
    \/ OnboardMetrics
    \/ CalculateBmrTdee
    \/ BodyBaeAICalculateTdee
    \/ CalculateGoalCalories
    \/ GetCalorieTargets

NextTracker ==
    \/ CreateUserProfile
    \/ SetUserGoals
    \/ LogProgress
    \/ Tick

NextBackend ==
    \/ Onboard
    \/ SetGoal
    \/ NutritionPlan

NextMain ==
    \/ AnalyzeHealth

NextEnhanced ==
    \/ EnhancedChat
    \/ SaveProfile

NextEngines ==
    \/ RagGetResponse
    \/ LightweightGenerateResponse
    \/ ProcessMessage

NextHistory ==
    \/ AdvancedChat
    \/ ApiChat
    \/ CompleteChat
    \/ CleanChat

NextTools ==
    \/ SearchRelevantDocs
    \/ StartProcess
    \/ ExitProcess
    \/ AddToKnowledge
    \/ ProcessQuery
    \/ MainChat

Next ==
    \/ NextCalculators
    \/ NextTracker
    \/ NextBackend
    \/ NextMain
    \/ NextEnhanced
    \/ NextEngines
    \/ NextHistory
    \/ NextTools
    \/ OnboardThread
    \/ ChatThread
    \/ LogProgressInterrupted
    \/ FindBestResponse

Spec == Init /\ [][Next]_vars

\* one program at a time
SpecCalculators == InitOf("calculators") /\ [][NextCalculators]_vars
SpecTracker == InitOf("bodybae-app") /\ [][NextTracker]_vars
SpecBackend == InitOf("bodybae_backend") /\ [][NextBackend]_vars
SpecEnhanced == InitOf("enhanced_backend") /\ [][NextEnhanced]_vars

\* the programs that answer chat messages
SpecChat ==
    (\/ InitOf("enhanced_backend")
     \/ InitOf("bodybae_rag")
     \/ InitOf("bodybae_complete")
     \/ InitOf("chatbot_service"))
    /\ [][NextEnhanced \/ NextEngines]_vars

\* the chat routes that trim the stored list
SpecTrimmed ==
    (InitOf("bodybae_main/advanced_chat") \/ InitOf("enhanced_backend/api/chat"))
    /\ [][AdvancedChat \/ ApiChat]_vars

\* the chat routes that do not
SpecUntrimmed ==
    (InitOf("bodybae_complete/chat") \/ InitOf("clean_main_app/chat"))
    /\ [][CompleteChat \/ CleanChat]_vars

\* the chat routes of the three programs that keep profiles and conversations
SpecChatRoutes ==
    (\/ InitOf("bodybae_main/advanced_chat")
     \/ InitOf("enhanced_backend/api/chat")
     \/ InitOf("bodybae_complete/chat"))
    /\ [][AdvancedChat \/ ApiChat \/ CompleteChat]_vars

\* the engines that keep one conversation memory
SpecMemory ==
    (InitOf("bodybae_rag") \/ InitOf("chatbot_service"))
    /\ [][RagGetResponse \/ ProcessMessage]_vars

\* the retrieval of enhanced_backend on its own
SpecSearch == InitOf("enhanced_backend/search") /\ [][SearchRelevantDocs]_vars

\* main.py over several runs of the process
SpecKnowledge ==
    InitOf("main")
    /\ [][StartProcess \/ ExitProcess \/ AddToKnowledge \/ ProcessQuery]_vars

\* bodybae-app over a database that can fail after a commit
SpecTrackerFaults ==
    InitOf("bodybae-app") /\ [][NextTracker \/ LogProgressInterrupted]_vars

\* find_best_response called on its own
SpecFaq == InitOf("bodybae_backend/find_best_response") /\ [][FindBestResponse]_vars

\* main.py serving /api/chat
SpecMainChat == InitOf("main/chat") /\ [][MainChat]_vars

\* bodybae_backend with two onboarding requests in flight
SpecOnboardThreads == InitOf("bodybae_backend/threads") /\ [][OnboardThread]_vars

\* bodybae_main with two chat requests of one user in flight
SpecChatThreads == InitOf("bodybae_main/threads") /\ [][ChatThread]_vars

\* the programs with an onboarding route
SpecOnboarding ==
    (InitOf("bodybae_backend") \/ InitOf("bodybae_main"))
    /\ [][NextBackend \/ NextMain]_vars

\* the programs whose routes take a user id
SpecUserIds ==
    (InitOf("bodybae_backend") \/ InitOf("bodybae-app"))
    /\ [][NextBackend \/ NextTracker]_vars

----------------------------------------------------------------------------
(* Properties of the calculators *)

\* the band of a bmi weight / (height/100)^2 under the boundaries 18.5, 25, 30
StepBand(weight, height) ==
    IF 2 * 10000 * weight < 37 * height * height THEN "underweight"
    ELSE IF 10000 * weight < 25 * height * height THEN "normal"
    ELSE IF 10000 * weight < 30 * height * height THEN "overweight"
    ELSE "obese"

\* the band a reported category label stands for; a label outside the four bands
\* stands for itself
BandOf(category) ==
    CASE category = "Underweight" -> "underweight"
      [] category \in {"Normal weight", "Normal Weight"} -> "normal"
      [] category = "Overweight" -> "overweight"
      [] category = "Obese" -> "obese"
      [] OTHER -> category

BmiFns == {"calculate_bmi", "calculate_bmi_detailed", "get_bmi_category"}

FemaleBmr4 == 40 * calc.arg.weight + 25 * calc.arg.height - 20 * calc.arg.age - 644

\* C6 as stated: for identical weight, height and age the reported male BMR minus
\* the reported female BMR is exactly 166, also after int() / round().
C6_ParityAfterRounding ==
    /\ (calc.fn = "onboard" /\ calc.arg.sex = "male") =>
        calc.out.bmr
            - onboard_metrics(calc.arg.weight, calc.arg.height, calc.arg.age,
                              "female", calc.arg.activity).bmr = 166
    /\ (calc.fn = "calculate_tdee" /\ calc.arg.sex = "male") =>
        calc.out.bmr
            - calculate_bmr(calc.arg.weight, calc.arg.height, calc.arg.age,
                            "female") = 166

\* C6, amended: the unrounded values differ by exactly 166, and so do the values
\* calculate_bmr reports after round(); the values onboard reports after int()
\* differ by 166 whenever the female BMR 10w + 6.25h - 5a - 161 is not negative,
\* and by 165 when int() truncates a fractional negative female BMR and a
\* positive male BMR toward zero from opposite sides.
C6_Parity ==
    /\ (calc.fn = "onboard" /\ calc.arg.sex = "male") =>
        LET d == calc.out.bmr
                    - onboard_metrics(calc.arg.weight, calc.arg.height, calc.arg.age,
                                      "female", calc.arg.activity).bmr
        IN  /\ FemaleBmr4 >= 0 => d = 166
            /\ d = IF FemaleBmr4 < 0 /\ FemaleBmr4 + 664 > 0 /\ FemaleBmr4 % 4 # 0
                   THEN 165 ELSE 166
            /\ onboard_bmr(calc.arg.weight, calc.arg.height, calc.arg.age, "male")
                    - onboard_bmr(calc.arg.weight, calc.arg.height, calc.arg.age,
                                  "female") = 4 * 166
    /\ (calc.fn = "calculate_tdee" /\ calc.arg.sex = "male") =>
        calc.out.bmr
            - calculate_bmr(calc.arg.weight, calc.arg.height, calc.arg.age,
                            "female") = 166

\* 70 kg, 175 cm, 30 years, male: 1648.75, reported by onboard as 1648
C6_Witness ==
    /\ calc.fn = "onboard" /\ calc.arg.sex = "male"
    /\ calc.arg.weight = 70 /\ calc.arg.height = 175 /\ calc.arg.age = 30
    /\ calc.out.bmr = 1648
    /\ FemaleBmr4 >= 0

\* the activity levels of each table in the order the claim gives them
BackendLevels == <<"sedentary", "light", "moderate", "active", "very_active">>
EnhancedLevels ==
    <<"sedentary", "lightly_active", "moderately_active", "very_active",
      "extremely_active">>

\* the TDEE the call reports is not below the TDEE of any lower level, same BMR
NotBelowLowerLevels ==
    /\ calc.fn = "onboard" =>
        LET bmr4 == onboard_bmr(calc.arg.weight, calc.arg.height, calc.arg.age,
                                calc.arg.sex)
        IN  \A i, j \in 1..Len(BackendLevels) :
                (i <= j /\ calc.arg.activity = BackendLevels[j]) =>
                    onboard_tdee(bmr4, BackendLevels[i]) <= calc.out.tdee
    /\ calc.fn = "calculate_tdee" =>
        \A i, j \in 1..Len(EnhancedLevels) :
            (i <= j /\ calc.arg.activity = EnhancedLevels[j]) =>
                calculate_tdee(calc.out.bmr, EnhancedLevels[i]) <= calc.out.tdee
    /\ calc.fn = "BodyBaeAI.calculate_tdee" =>
        \A i, j \in 1..Len(EnhancedLevels) :
            (i <= j /\ calc.arg.activity = EnhancedLevels[j]) =>
                BodyBaeAI_calculate_tdee(calc.out.bmr4, EnhancedLevels[i])
                    <= calc.out.tdee4000

\* the TDEE the call reports is not above the TDEE of any lower level, same BMR
NotAboveLowerLevels ==
    /\ calc.fn = "onboard" =>
        LET bmr4 == onboard_bmr(calc.arg.weight, calc.arg.height, calc.arg.age,
                                calc.arg.sex)
        IN  \A i, j \in 1..Len(BackendLevels) :
                (i <= j /\ calc.arg.activity = BackendLevels[j]) =>
                    onboard_tdee(bmr4, BackendLevels[i]) >= calc.out.tdee
    /\ calc.fn = "calculate_tdee" =>
        \A i, j \in 1..Len(EnhancedLevels) :
            (i <= j /\ calc.arg.activity = EnhancedLevels[j]) =>
                calculate_tdee(calc.out.bmr, EnhancedLevels[i]) >= calc.out.tdee
    /\ calc.fn = "BodyBaeAI.calculate_tdee" =>
        \A i, j \in 1..Len(EnhancedLevels) :
            (i <= j /\ calc.arg.activity = EnhancedLevels[j]) =>
                BodyBaeAI_calculate_tdee(calc.out.bmr4, EnhancedLevels[i])
                    >= calc.out.tdee4000

TdeeFns == {"onboard", "calculate_tdee", "BodyBaeAI.calculate_tdee"}

\* the BMR the TDEE of the call was computed from is negative
NegativeBmr ==
    CASE calc.fn = "onboard" ->
            onboard_bmr(calc.arg.weight, calc.arg.height, calc.arg.age,
                        calc.arg.sex) < 0
      [] calc.fn = "calculate_tdee" -> calc.out.bmr < 0
      [] calc.fn = "BodyBaeAI.calculate_tdee" -> calc.out.bmr4 < 0
      [] OTHER -> FALSE

\* C7 as stated: for every BMR onboarding produces, the TDEE is non-decreasing
\* along sedentary, light, moderate, active, very active.
C7_MonotoneEveryBmr == calc.fn \in TdeeFns => NotBelowLowerLevels

\* C7, amended: for every BMR >= 0 the TDEE is non-decreasing along the activity
\* levels of the variant's table; for a negative BMR, which onboarding produces
\* for a light, short and old enough user, it is non-increasing instead.
C7_Monotone ==
    calc.fn \in TdeeFns =>
        IF NegativeBmr THEN NotAboveLowerLevels ELSE NotBelowLowerLevels

\* onboard at the highest level with a positive BMR: the TDEE exceeds the sedentary one
C7_Witness ==
    /\ calc.fn = "onboard" /\ calc.arg.activity = "very_active"
    /\ ~NegativeBmr
    /\ calc.out.tdee >
        onboard_tdee(onboard_bmr(calc.arg.weight, calc.arg.height, calc.arg.age,
                                 calc.arg.sex), "sedentary")

\* the offset the claim gives for a goal, as a one-element sequence; <<>> for a goal
\* the claim does not name
ClaimedOffset(goal) ==
    CASE goal \in {"Lose Weight", "lose_weight"} -> <<-500>>
      [] goal \in {"Gain Weight", "gain_weight"} -> <<300>>
      [] goal \in {"Gain Muscle", "gain_muscle"} -> <<250>>
      [] goal \in {"Maintain Weight", "maintain_weight"} -> <<0>>
      [] OTHER -> <<>>

\* C8 as stated: both calculate_goal_calories and get_calorie_targets give
\* TDEE - 500 (lose weight), TDEE + 300 (gain weight), TDEE + 250 (gain muscle)
\* and TDEE (maintain).
C8_OffsetsBothVariants ==
    LET off == ClaimedOffset(calc.arg.goal)
    IN  /\ (calc.fn = "calculate_goal_calories" /\ off # <<>>) =>
            calc.out.target_calories = calc.arg.tdee + off[1]
        /\ (calc.fn = "get_calorie_targets" /\ off # <<>>) =>
            calc.out.calories = calc.arg.tdee + off[1]

\* C8, amended: calculate_goal_calories gives TDEE - 500 for 'Lose Weight',
\* TDEE + 300 for 'Gain Weight', TDEE + 250 for 'Gain Muscle' and TDEE for
\* 'Maintain Weight'; get_calorie_targets gives max(1200, TDEE - 500) for
\* lose_weight, TDEE + 300 for gain_muscle, TDEE for maintain_weight, and has no
\* gain-weight entry (gain_weight gets the general_fitness default, TDEE).
C8_Offsets ==
    LET t == calc.arg.tdee
        g == calc.arg.goal
    IN  /\ calc.fn = "calculate_goal_calories" =>
            /\ g = "Lose Weight" => calc.out.target_calories = t - 500
            /\ g = "Gain Weight" => calc.out.target_calories = t + 300
            /\ g = "Gain Muscle" => calc.out.target_calories = t + 250
            /\ g = "Maintain Weight" => calc.out.target_calories = t
        /\ calc.fn = "get_calorie_targets" =>
            /\ g = "lose_weight" =>
                calc.out.calories = IF t - 500 < 1200 THEN 1200 ELSE t - 500
            /\ g = "gain_muscle" => calc.out.calories = t + 300
            /\ g = "maintain_weight" => calc.out.calories = t
            /\ g = "gain_weight" => calc.out.calories = t

\* get_calorie_targets for lose_weight on a TDEE of 1000: the 1200 floor applies
C8_Witness ==
    /\ calc.fn = "get_calorie_targets"
    /\ calc.arg.goal = "lose_weight" /\ calc.arg.tdee = 1000
    /\ calc.out.calories = 1200

----------------------------------------------------------------------------
(* Properties of the progress tracker *)

\* the unrounded percentage-to-goal of a lose_weight goal, as the fraction
\* lost / total (0 / 1 when there is nothing to lose), in the given tables
LossFraction(user_rows, logs, goal) ==
    LET start == starting_weight(user_rows, logs, goal.user_id)
        total == start - goal.target_value
    IN  IF total > 0
        THEN [lost |-> start - user_rows[goal.user_id].weight, total |-> total]
        ELSE [lost |-> 0, total |-> 1]

\* a log_progress call that got past the user lookup: it added a log row
LogStep == Len(db_logs') = Len(db_logs) + 1

\* the weight-loss goals the check of this step evaluates
EvaluatedLossGoals ==
    {g \in 1..Len(db_goals) :
        /\ db_goals[g].goal_type = "lose_weight"
        /\ IsActiveGoal(db_goals[g], db_logs'[Len(db_logs')].user_id)}

\* C1: check_goal_progress flips a weight-loss goal to completed when its
\* percentage-to-goal is exactly 100.0, and does not flip it when the percentage
\* is strictly below 100 (99.99).
C1_CompletionBoundary ==
    [][LogStep =>
        \A g \in EvaluatedLossGoals :
            LET f == LossFraction(db_users', db_logs', db_goals[g])
            IN  /\ f.lost = f.total => db_goals'[g].completed
                /\ f.lost < f.total => ~db_goals'[g].completed]_vars

----------------------------------------------------------------------------
(* Properties of the request handlers *)

\* the request of an onboarding route lacks a required field, or carries a
\* numeric field that is not a number
FaultyOnboarding ==
    \/ /\ resp.op = "onboard"
       /\ \/ MissingFields(req) # {}
          \/ \E f \in {"age", "height", "weight"} : ~Converts(req[f])
    \/ /\ resp.op = "analyze_health"
       /\ UserDataRaises(req)

\* C9: an onboarding request with a missing required field or a non-numeric
\* numeric field is answered with a 4xx status and an error message, never with
\* a 5xx status or a 200 status.
C9_FaultyRequestRejected ==
    FaultyOnboarding =>
        /\ resp.status \in 400..499
        /\ "error" \in DOMAIN resp.body

\* a step that handles a request carrying a user id that is not in the store
UnknownUserRequest ==
    \/ /\ app = "bodybae_backend"
       /\ resp'.op \in {"set_goal", "nutrition_plan"}
       /\ req'.user_id # None
       /\ req'.user_id[1] > Len(users)
    \/ /\ app = "bodybae-app"
       /\ today' = today
       /\ resp'.op = "log_progress"
       /\ req'.user_id[1] > Len(db_users)

\* C10: set_goal, nutrition_plan and log_progress answer a user id that is not
\* in the user store with status 404 and an error, and change no stored state.
C10_UnknownUserNotFound ==
    [][UnknownUserRequest =>
        /\ resp'.status = 404
        /\ "error" \in DOMAIN resp'.body
        /\ UNCHANGED <<users, db_users, db_logs, db_goals>>]_vars

----------------------------------------------------------------------------
(* Properties of the response engines *)

\* the operations that answer a chat message
ChatOps == {"chat", "get_response", "generate_response", "process_message"}

\* the text the last chat operation returned
ReplyText == IF resp.op = "chat" THEN resp.body.response ELSE resp.body.text

\* the name of the user profile the engine was given, if any
SuppliedName ==
    IF resp.op = "chat"
    THEN IF req.user_id # None /\ req.user_id[1] <= Len(users_db)
         THEN Some(users_db[req.user_id[1]].name)
         ELSE None
    ELSE IF req.user_profile # None
         THEN Some(req.user_profile[1].name)
         ELSE None

Contains(text, part) == \E i \in 1..Len(text) : text[i] = part

\* C2: whenever the generation call raises, generate_response / get_response
\* still returns a non-empty string, and when a user profile with a name was
\* supplied that string contains the name.
C2_FallbackNamesUser ==
    (resp.op \in {"chat", "get_response", "generate_response"}
     /\ calls.generation = "raised") =>
        /\ "error" \notin DOMAIN resp.body
        /\ Len(ReplyText) > 0
        /\ SuppliedName # None => Contains(ReplyText, SuppliedName[1])

\* C3: when the embedding/retrieval call or the generation call of a chat
\* request raises, the caller gets a normal chat response from the fallback:
\* no 5xx status, no 'error' field, no response of type 'error'.
C3_FailuresRouted ==
    (resp.op \in ChatOps
     /\ (calls.encode = "raised" \/ calls.generation = "raised")) =>
        /\ resp.status < 500
        /\ "error" \notin DOMAIN resp.body
        /\ "type" \in DOMAIN resp.body => resp.body.type # "error"

\* an /api/chat request of enhanced_backend whose retrieval returned
Retrieved == resp.op = "chat" /\ calls.encode = "returned"

----------------------------------------------------------------------------
\* The conversation stores

\* a step of a chat route that stored an exchange
Stored == clock' = clock + 1

\* the user whose request the step handled
Requester == req'.user_id[1]

\* what a list of messages holds after one more exchange when only the latest
\* 20 are kept, said without the slice of the code: the exchange comes last,
\* and before it come the latest of the old messages, as they were
KeepsLatest(old, new, message, now) ==
    LET kept == Len(new) - 2
    IN  /\ Len(new) = IF Len(old) + 2 > 20 THEN 20 ELSE Len(old) + 2
        /\ new[kept + 1] = [role |-> "user", content |-> message, timestamp |-> now]
        /\ new[kept + 2].role = "assistant"
        /\ new[kept + 2].timestamp = now
        /\ \A i \in 1..kept : new[i] = old[Len(old) - kept + i]

\* C11: after any sequence of chat requests handled one at a time, the list
\* stored for each user id by bodybae_main and enhanced_backend holds at most 20
\* entries, and they are the most recent ones in their original order: every
\* stored exchange is put last, in front of it stay the latest old entries
C11_TrimmedToLatest ==
    /\ [](\A u \in ChatIds : Len(chat_history_db[u]) <= 20)
    /\ [][Stored =>
            /\ KeepsLatest(chat_history_db[Requester], chat_history_db'[Requester],
                           req'.message, clock)
            /\ \A u \in ChatIds \ {Requester} :
                  chat_history_db'[u] = chat_history_db[u]]_vars

\* an eleventh exchange of one user was stored and the oldest one was dropped
C11_Witness ==
    \E u \in ChatIds :
        /\ Len(chat_history_db[u]) = 20
        /\ chat_history_db[u][1].timestamp > 0
        /\ chat_history_db[u][20].timestamp = clock - 1
        /\ req # NoRequest
        /\ req.user_id = Some(u)

\* C12: in bodybae_complete and clean_main_app the stored list of a user never
\* holds more than 20 entries, whatever the number of chat requests
C12_NeverMoreThan20 ==
    app \in {"bodybae_complete/chat", "clean_main_app/chat"} =>
        \A u \in ChatIds : Len(chat_history_db[u]) <= 20

\* the lists of the users other than the one of the request stay as they were
OthersUnchanged ==
    \A u \in ChatIds :
        req'.user_id # Some(u) => chat_history_db'[u] = chat_history_db[u]

\* the list of the requesting user stays, or ends with the exchange of the
\* request and holds nothing else that it did not hold
OwnAppended ==
    req'.user_id # None =>
        LET old == chat_history_db[Requester]
            new == chat_history_db'[Requester]
        IN  \/ new = old
            \/ /\ Len(new) >= 2
               /\ new[Len(new) - 1] = [role |-> "user", content |-> req'.message,
                                       timestamp |-> clock]
               /\ new[Len(new)].role = "assistant"
               /\ \A i \in 1..(Len(new) - 2) : \E j \in 1..Len(old) : new[i] = old[j]

\* C13 as amended: a chat request changes neither users_db nor the list of any
\* other user, changes the list of its own user only by appending its
\* exchange, and changes no list when it has no user id
C13_ProfilesAndOtherListsUnchanged ==
    [][/\ users_db' = users_db
       /\ conversations_db' = conversations_db
       /\ OthersUnchanged
       /\ OwnAppended]_vars

\* user 1 has chatted, then user 2 has, then a request without a user id was
\* answered: the profile of user 1 and both lists are as they were
C13_Witness ==
    /\ users_db = StoredProfiles
    /\ Len(chat_history_db[1]) = 2
    /\ Len(chat_history_db[2]) = 2
    /\ chat_history_db[1][1].timestamp < chat_history_db[2][1].timestamp
    /\ req # NoRequest
    /\ req.user_id = None
    /\ req.message # ""
    /\ resp.status = 200

\* C13 as stated: a chat request changes no state other than the list of its
\* user, and without a user id it changes no stored state at all
C13_NoOtherState ==
    [][/\ users_db' = users_db
       /\ OthersUnchanged
       /\ memory' = memory]_vars

----------------------------------------------------------------------------
\* The conversation memory of the engines

\* who sent the request of the step: the profile that RAGSystem.get_response is
\* called with, the user id that ChatbotService.process_message is called with
Sender == IF app = "bodybae_rag" THEN req'.user_profile ELSE req'.user_id

\* C14: the conversation turns supplied to the generative model for a request
\* are turns of the requesting user only
C14_OnlyOwnTurnsSupplied ==
    [][calls'.generation # "none" =>
          \A i \in 1..Len(calls'.history) : calls'.history[i].user = Sender]_vars

----------------------------------------------------------------------------
\* Retrieval

----------------------------------------------------------------------------
\* The knowledge base of main.py

\* the process is running
Running == app = "main" /\ vs_db # None

\* a sequence begins with another
StartsWith(chunks, first) ==
    /\ Len(chunks) >= Len(first)
    /\ SubSeq(chunks, 1, Len(first)) = first

Starts == app = "main" /\ vs_db = None /\ vs_db' # None

----------------------------------------------------------------------------
\* Requests in flight

\* thread w stores in this step
Stores(w) == threads[w].pc = "computed" /\ threads'[w].pc = "done"

\* C18: users is written without a lock under the id computed from its length:
\* a store puts the profile of its request under that id whatever is there,
\* and adds a user only when the id is new, so two requests that computed the
\* same id leave one profile, that of the later store
C18_StoreOverwritesTakenId ==
    [][\A w \in Workers : Stores(w) =>
          LET user_id == threads[w].user_id
          IN  /\ users'[user_id] = [name |-> threads[w].name]
              /\ Len(users') = IF user_id > Len(users) THEN user_id ELSE Len(users)
              /\ \A i \in 1..Len(users) : i # user_id => users'[i] = users[i]]_vars

\* both requests were answered with the same user_id, and the one profile that
\* users holds under it is not the one of the first thread
C18_Witness ==
    /\ app = "bodybae_backend/threads"
    /\ threads[1].pc = "done"
    /\ threads[2].pc = "done"
    /\ threads[1].user_id = threads[2].user_id
    /\ threads[1].name # threads[2].name
    /\ Len(users) = 1
    /\ users[1].name = threads[2].name

\* the stored list of the user holds the exchange that thread w extended it by
Has(w) ==
    \E i \in 1..Len(chat_history_db[1]) :
        chat_history_db[1][i].timestamp = threads[w].stamp

\* thread w reassigns in this step
Reassigns(w) == threads[w].pc = "sliced" /\ threads'[w].pc = "done"

\* C19: the list is extended and trimmed without a lock: the slice of a thread
\* holds the 20 entries that were last when it was taken, and the reassignment
\* makes the stored list that slice whatever the list was extended by since,
\* so the exchange of a request that extended the list between the slice and
\* the reassignment of another is lost
C19_ReassignDropsLaterExtends ==
    /\ [](app = "bodybae_main/threads" =>
            \A w \in Workers : threads[w].pc = "sliced" =>
                /\ Len(threads[w].temp) = 20
                /\ \A i \in 1..19 : threads[w].temp[i].timestamp
                                         <= threads[w].temp[i + 1].timestamp)
    /\ [][\A w \in Workers : Reassigns(w) =>
            /\ chat_history_db'[1] = threads[w].temp
            /\ \A v \in Workers :
                  (threads[v].stamp > threads[w].temp[20].timestamp
                   /\ threads[v].pc \in {"extended", "trimming", "sliced", "done"})
                      => ~Has(v)']_vars

\* both requests are completed, and the stored list holds the exchange of the
\* first thread and lacks that of the second
C19_Witness ==
    /\ app = "bodybae_main/threads"
    /\ threads[1].pc = "done"
    /\ threads[2].pc = "done"
    /\ threads[1].stamp # threads[2].stamp
    /\ Has(1)
    /\ ~Has(2)
    /\ Len(chat_history_db[1]) = 20

----------------------------------------------------------------------------
\* Reaching the target weight

\* C20: for a lose_weight goal whose target is below the weight the user had
\* when the goal was set, a log_progress call that records a weight at or below
\* the target leaves the goal completed, whatever logs preceded it or none.
\* Said here for the calls that no log of the user preceded, where the weight at
\* the time the goal was set is the weight of the profile before the call.
C20_AtOrBelowTargetCompletes ==
    [][LogStep =>
          LET log == db_logs'[Len(db_logs')]
          IN  \A g \in EvaluatedLossGoals :
                  (/\ Truthy(log.weight)
                   /\ \A i \in 1..Len(db_logs) : db_logs[i].user_id # log.user_id
                   /\ db_goals[g].target_value < db_users[log.user_id].weight
                   /\ log.weight[1] <= db_goals[g].target_value)
                      => db_goals'[g].completed]_vars

----------------------------------------------------------------------------
\* The life of a goal

\* the goals of the user of this log_progress call that were not completed
\* before it
OpenGoals ==
    {g \in 1..Len(db_goals) :
        /\ db_goals[g].user_id = db_logs'[Len(db_logs')].user_id
        /\ db_goals[g].is_active
        /\ ~db_goals[g].completed}

\* C21: the completed flag of a goal only changes from False to True: a
\* completed goal stays as it is in every step, and a log_progress call
\* evaluates and reports the goals of its user that were not completed, and
\* no others
C21_CompletedStays ==
    [][/\ \A g \in 1..Len(db_goals) :
             /\ Len(db_goals') >= Len(db_goals)
             /\ db_goals[g].completed => db_goals'[g] = db_goals[g]
       /\ LogStep =>
             /\ Len(resp'.body.progress_update) = Cardinality(OpenGoals)
             /\ \A g \in 1..Len(db_goals) :
                   db_goals'[g] # db_goals[g] => g \in OpenGoals]_vars

\* a goal is completed, and a later log_progress call of its user with a weight
\* was answered without a report of it
C21_Witness ==
    /\ app = "bodybae-app"
    /\ resp.op = "log_progress"
    /\ db_logs # <<>>
    /\ Truthy(db_logs[Len(db_logs)].weight)
    /\ \E g \in 1..Len(db_goals) :
          /\ db_goals[g].completed
          /\ db_goals[g].user_id = db_logs[Len(db_logs)].user_id
          /\ req.user_id = Some(db_goals[g].user_id)
          /\ "progress_update" \in DOMAIN resp.body
          /\ resp.body.progress_update = <<>>

----------------------------------------------------------------------------
\* Goals and calorie targets in bodybae_backend

\* the user of a set_goal request has a TDEE that Python takes as true
TdeeAvailable ==
    /\ req'.user_id # None
    /\ req'.user_id[1] \in 1..Len(users)
    /\ users[req'.user_id[1]].tdee # 0

\* C22: set_goal computes, returns and stores a calorie target only when the
\* user has a TDEE: without a user id, with an unknown one or with a TDEE of 0
\* the answer carries target_calories = null and users is unchanged; otherwise
\* the returned and the stored target are calculate_goal_calories(tdee, goal)
C22_TargetNeedsTdee ==
    [][(resp'.op = "set_goal" /\ resp'.status = 200) =>
          IF TdeeAvailable
          THEN LET user_id == req'.user_id[1]
                   target == calculate_goal_calories(users[user_id].tdee,
                                                     TextOf(req'.goal))
               IN  /\ resp'.body.target_calories = Some(target)
                   /\ users'[user_id].target_calories = Some(target)
                   /\ users'[user_id].goal = req'.goal
                   /\ Len(users') = Len(users)
                   /\ \A u \in 1..Len(users) : u # user_id => users'[u] = users[u]
          ELSE /\ resp'.body.target_calories = None
               /\ users' = users]_vars

\* a user has a stored target, and a set_goal request with an unknown user id
\* was answered with target_calories = null
C22_Witness ==
    /\ app = "bodybae_backend"
    /\ resp.op = "set_goal"
    /\ resp.status = 200
    /\ req.user_id = Some(Len(users) + 1)
    /\ resp.body.target_calories = None
    /\ \E u \in 1..Len(users) : users[u].target_calories # None

\* the last request was the onboarding of Sam (30, male, 175 cm, 70 kg,
\* moderate) and it succeeded
SamOnboarded ==
    /\ app = "bodybae_backend"
    /\ resp.op = "onboard"
    /\ resp.status = 200
    /\ req = BaseRequest

\* the profile stored under the returned user id carries the reported values
StoredAsReported ==
    /\ resp.body.user_id \in 1..Len(users)
    /\ users[resp.body.user_id].bmi = resp.body.bmi
    /\ users[resp.body.user_id].bmr = resp.body.bmr
    /\ users[resp.body.user_id].tdee = resp.body.tdee

\* C23: onboarding Sam returns bmi 22.9 (Normal weight), bmr 1648 = int(1648.75)
\* and tdee 2555 = int(1648.75 * 1.55), and stores a profile with the same bmi,
\* bmr and tdee under the returned user id
C23_SamOnboarding ==
    SamOnboarded =>
        /\ resp.body.bmi = 229
        /\ resp.body.bmi_category = "Normal weight"
        /\ resp.body.bmr = 1648
        /\ resp.body.tdee = 2555
        /\ StoredAsReported

C23_Witness ==
    /\ SamOnboarded
    /\ resp.body.user_id = 2
    /\ users[2].tdee = 2555

\* C23 as stated: the reported bmr is within 1 of 1674 and the tdee is the
\* reported bmr times 1.55
C23_BmrNear1674 ==
    SamOnboarded =>
        /\ resp.body.bmi = 229
        /\ resp.body.bmr \in 1673..1675
        /\ 1000 * resp.body.tdee = 1550 * resp.body.bmr
        /\ StoredAsReported

----------------------------------------------------------------------------
\* The onboarding conversation of main.py

\* the position of a user in the onboarding flow: 0 before the first message
StepIndex(db, user_id) ==
    IF db[user_id] = None THEN 0
    ELSE CHOOSE i \in 1..Len(OnboardingSteps) : OnboardingSteps[i] = db[user_id][1].step

\* C24: a chat message of a user whose step is not 'complete' is handled by
\* handle_onboarding and moves the user at most one step along name, age,
\* height, weight, sex, activity, complete; process_message gets a message only
\* when the step is 'complete'
C24_OnboardingBeforeMessages ==
    [][resp'.op = "chat" =>
          LET user_id == req'.user_id
              before == StepIndex(users_db, user_id)
              after == StepIndex(users_db', user_id)
          IN  /\ after \in {before, before + 1}
              /\ resp'.via = "process_message" =>
                    OnboardingSteps[before] = "complete"
              /\ before < Len(OnboardingSteps) => resp'.via = "handle_onboarding"]_vars

----------------------------------------------------------------------------
\* The keys of the users dict of bodybae_backend

\* the profile of a user apart from what set_goal writes
Onboarded(profile) ==
    [name |-> profile.name, weight |-> profile.weight, bmi |-> profile.bmi,
     bmi_category |-> profile.bmi_category, bmr |-> profile.bmr, tdee |-> profile.tdee]

\* C25: with one request handled at a time, a successful onboard stores its
\* profile under a user id that was not in users, the number of users grows by
\* exactly one with it and with nothing else, and no request removes a user or
\* replaces what onboarding stored for one
C25_OnboardAddsOneNewUser ==
    [][/\ Len(users') = IF resp'.op = "onboard" /\ resp'.status = 200
                        THEN Len(users) + 1
                        ELSE Len(users)
       /\ (resp'.op = "onboard" /\ resp'.status = 200) =>
             /\ resp'.body.user_id \notin 1..Len(users)
             /\ resp'.body.user_id \in 1..Len(users')
             /\ users'[resp'.body.user_id].name = req'.name
             /\ \A u \in 1..Len(users) : users'[u] = users[u]
       /\ \A u \in 1..Len(users) : Onboarded(users'[u]) = Onboarded(users[u])]_vars

\* a second user was onboarded after the first had set a goal
C25_Witness ==
    /\ app = "bodybae_backend"
    /\ resp.op = "onboard"
    /\ resp.status = 200
    /\ resp.body.user_id = 2
    /\ Len(users) = 2
    /\ users[1].target_calories # None

----------------------------------------------------------------------------
\* Onboarding requests that fail

\* the answer to an onboarding request tells of an error
ErrorOutcome(r) ==
    /\ r.op \in {"onboard", "analyze_health"}
    /\ \/ "error" \in DOMAIN r.body
       \/ ("success" \in DOMAIN r.body /\ ~r.body.success)

\* C26: an onboarding request that is answered with an error outcome leaves the
\* user store as it was before the request
C26_ErrorLeavesStore ==
    [][ErrorOutcome(resp') => (users' = users /\ users_db' = users_db)]_vars

----------------------------------------------------------------------------
\* log_progress calls that fail

\* C27: a log_progress call that returns {'error': ...} leaves the three tables
\* as they were, for an unknown user and when the evaluation of the goals
\* raises after the log row was written
C27_ErrorLeavesTables ==
    [][(resp'.op = "log_progress" /\ "error" \in DOMAIN resp'.body) =>
          UNCHANGED <<db_users, db_logs, db_goals>>]_vars

----------------------------------------------------------------------------
\* The shape of a stored conversation

\* user and assistant entries in turn, a user entry first, an assistant entry last
Alternates(messages) ==
    /\ Len(messages) % 2 = 0
    /\ \A i \in 1..Len(messages) :
          messages[i].role = IF i % 2 = 1 THEN "user" ELSE "assistant"

\* C28: with one request handled at a time, every list that bodybae_main and
\* enhanced_backend store has an even number of entries, user and assistant in
\* turn with a user entry first; the trim to the last 20 keeps whole exchanges
C28_WholeExchanges ==
    \A u \in ChatIds : Alternates(chat_history_db[u])

\* a list that was trimmed: the exchange stamped 0 is gone, the one stamped 1
\* is whole at the head
C28_Witness ==
    \E u \in ChatIds :
        /\ Len(chat_history_db[u]) = 20
        /\ chat_history_db[u][1].role = "user"
        /\ chat_history_db[u][1].timestamp = 1
        /\ chat_history_db[u][2].timestamp = 1
        /\ chat_history_db[u][20].role = "assistant"

----------------------------------------------------------------------------
\* The answers of find_best_response

\* a keyword occurs in a message, whatever the case of the letters
Occurs(keyword, message) == In(lower(keyword), lower(message))

Occurring(t, message) ==
    Cardinality({k \in 1..Len(FAQ_KNOWLEDGE[t].keywords) :
                    Occurs(FAQ_KNOWLEDGE[t].keywords[k], message)})

\* the first of the topics with the most keywords in the message
MostKeywords(message) ==
    CHOOSE t \in 1..Len(FAQ_KNOWLEDGE) :
        /\ \A o \in 1..Len(FAQ_KNOWLEDGE) : Occurring(o, message) <= Occurring(t, message)
        /\ \A o \in 1..(t - 1) : Occurring(o, message) < Occurring(t, message)

\* C29: when a keyword of FAQ_KNOWLEDGE occurs in the message and the branch
\* for the user's own calories does not apply, find_best_response returns one of
\* the responses of the topic with the most keywords in the message, the first
\* such topic of FAQ_KNOWLEDGE on a tie; the greeting, the farewell and the
\* default are returned only when no keyword occurs
C29_TopicWithMostKeywords ==
    (calc.fn = "find_best_response"
     /\ ~personal_branch(lower(calc.arg.message), calc.arg.user_profile)) =>
        IF \E t \in 1..Len(FAQ_KNOWLEDGE) : Occurring(t, calc.arg.message) > 0
        THEN /\ calc.out.kind = "faq"
             /\ calc.out.topic = FAQ_KNOWLEDGE[MostKeywords(calc.arg.message)].topic
        ELSE calc.out.kind \in {"greeting", "farewell", "default"}

----------------------------------------------------------------------------
\* The reported bmi and the reported category

\* the band of a reported bmi, in tenths
ReportedBand(bmi) ==
    IF bmi < 185 THEN "underweight"
    ELSE IF bmi < 250 THEN "normal"
    ELSE IF bmi < 300 THEN "overweight"
    ELSE "obese"

\* C30: the bmi and the category that calculate_bmi reports together agree: the
\* reported bmi, rounded to one decimal, is below 18.5 exactly when the category
\* is Underweight, in [18.5, 25) exactly when Normal, in [25, 30) exactly when
\* Overweight, and 30 or more exactly when Obese
C30_CategoryOfReportedBmi ==
    calc.fn = "calculate_bmi" =>
        BandOf(calc.out.category) = ReportedBand(calc.out.bmi)

====
